---- MODULE Spec2Model ----
(***************************************************************************)
(* Depreciation analytics and cross-filter index of the FIPE price webapp. *)
(* The price store (five tables), the lru_cache in front of                *)
(* _calculate_depreciation_analysis, and the two handlers                  *)
(* get_depreciation_analysis (computeReport) and get_vehicle_options       *)
(* (buildIndex), translated from src/app.py.                               *)
(*                                                                         *)
(* Representation.  A Python str is a tuple of character codes, compared   *)
(* the way Python and SQL's BINARY collation compare it.  A datetime.date  *)
(* is its proleptic Gregorian ordinal (date.toordinal()), a timedelta a    *)
(* number of days.  None is the empty tuple and a present value v is <<v>>.*)
(* A float is the exact rational <<numerator, denominator>>.               *)
(***************************************************************************)
EXTENDS Integers, Sequences, FiniteSets, TLC

VARIABLES
    store,      \* the database: brands, car_models, model_years, reference_months, car_prices
    lru,        \* the lru_cache of _calculate_depreciation_analysis, oldest entry first
    now,        \* the clock read by datetime.now(): the number of reads so far
    calls,      \* number of get_depreciation_analysis requests served
    resp,       \* the last request and its response
    calc_runs,  \* history: number of executions of the calculator body
    uses,       \* history: cached keys in the order of their last use, oldest first
    evictions,  \* history: number of entries removed from the lru_cache
    writes,     \* number of rows the scraper has appended to the store
    asked,      \* history: number of requests made in rank order
    served,     \* history: key -> the report computed for it since the last store write
    inflight,   \* per worker thread: how far its request has got
    config,     \* VALID_API_KEYS and the environment, fixed at start-up
    session,    \* the browser's session cookie and the day of the clock
    request     \* history: the credentials of the last request to a guarded endpoint

vars == <<store, lru, now, calls, resp, calc_runs, uses, evictions, writes, asked, served,
          inflight, config, session, request>>

authvars == <<config, session, request>>

(***************************************************************************)
(* Bounds of the model.                                                    *)
(***************************************************************************)
MaxCalls == 2
MaxLruCalls == 13
MaxLruHits == 1
MaxWrites == 1
MaxLruWrites == 1
MaxLruMonths == 6
MaxIndexWrites == 3
NumThreads == 2
MaxConcCalls == 2
MaxConcWarm == 10
MaxConcWrites == 1
MaxAuthRequests == 2
MaxAuthDays == 8

(***************************************************************************)
(* Values.                                                                 *)
(***************************************************************************)
None == <<>>
Some(x) == <<x>>
IsNone(o) == o = <<>>
Get(o) == o[1]

\* A Python list membership test and a dict assignment d[k] = v.
InList(x, q) == \E i \in 1..Len(q) : q[i] = x
DictSet(d, k, v) == [x \in (DOMAIN d) \cup {k} |-> IF x = k THEN v ELSE d[x]]

Min(S) == CHOOSE x \in S : \A y \in S : x <= y
Max(S) == CHOOSE x \in S : \A y \in S : x >= y
Abs(x) == IF x < 0 THEN -x ELSE x

RECURSIVE Gcd(_, _)
Gcd(a, b) == IF b = 0 THEN a ELSE Gcd(b, a % b)

\* Python str comparison: by code point, a proper prefix is the smaller.
RECURSIVE StrLess(_, _)
StrLess(s, t) ==
    IF t = <<>> THEN FALSE
    ELSE IF s = <<>> THEN TRUE
    ELSE IF s[1] # t[1] THEN s[1] < t[1]
    ELSE StrLess(Tail(s), Tail(t))

\* str(n) of an int: decimal digits, '-' in front of a negative one.
RECURSIVE StrNat(_)
StrNat(n) == IF n < 10 THEN <<48 + n>> ELSE StrNat(n \div 10) \o <<48 + (n % 10)>>
Str(n) == IF n < 0 THEN <<45>> \o StrNat(-n) ELSE StrNat(n)

\* Zero-padded decimal of width w (the %04d and %02d of date.isoformat()).
RECURSIVE Pad(_, _)
Pad(s, w) == IF Len(s) >= w THEN s ELSE Pad(<<48>> \o s, w)

\* (year, month, day) of a date ordinal.
CivilFromOrdinal(ord) ==
    LET z   == ord + 305
        era == z \div 146097
        doe == z - era * 146097
        yoe == (doe - (doe \div 1460) + (doe \div 36524) - (doe \div 146096)) \div 365
        doy == doe - (365 * yoe + (yoe \div 4) - (yoe \div 100))
        mp  == (5 * doy + 2) \div 153
        d   == doy - ((153 * mp + 2) \div 5) + 1
        m   == IF mp < 10 THEN mp + 3 ELSE mp - 9
        y   == yoe + era * 400 + (IF m <= 2 THEN 1 ELSE 0)
    IN  <<y, m, d>>

\* date.isoformat(): "YYYY-MM-DD".
IsoFormat(ord) ==
    LET c == CivilFromOrdinal(ord)
    IN  Pad(StrNat(c[1]), 4) \o <<45>> \o Pad(StrNat(c[2]), 2) \o <<45>> \o Pad(StrNat(c[3]), 2)

(***************************************************************************)
(* The price store.  Rows are records; a table is a set of rows.           *)
(*   brands           [id, brand_name]                                     *)
(*   car_models       [id, brand_id, model_name]                           *)
(*   model_years      [id, car_model_id, year_description]                 *)
(*   reference_months [id, month_date]                                     *)
(*   car_prices       [reference_month_id, model_year_id, price]           *)
(***************************************************************************)
\* Mutant: an empty table yields a default date instead of None.
get_latest_reference_month_default(db) ==
    IF db.reference_months = {} THEN Some(738886)
    ELSE Some(Max({m.month_date : m \in db.reference_months}))

\* get_latest_reference_month: the greatest month_date, None for an empty table.
get_latest_reference_month(db) ==
    IF db.reference_months = {} THEN None
    ELSE Some(Max({m.month_date : m \in db.reference_months}))

(***************************************************************************)
(* Floats as exact rationals <<n, d>>, d > 0, in lowest terms.             *)
(***************************************************************************)
Rat(n, d) ==
    LET g == Gcd(Abs(n), Abs(d))
        sgn == IF d < 0 THEN -1 ELSE 1
    IN  <<sgn * (n \div g), sgn * (d \div g)>>
RatAdd(a, b) ==
    LET l == (a[2] \div Gcd(a[2], b[2])) * b[2]
    IN  Rat(a[1] * (l \div a[2]) + b[1] * (l \div b[2]), l)
RatLess(a, b) ==
    LET l == (a[2] \div Gcd(a[2], b[2])) * b[2]
    IN  a[1] * (l \div a[2]) < b[1] * (l \div b[2])

\* round(n / d) to the nearest integer, a tie to the even one (Python's round).
RoundHalfEven(n, d) ==
    LET q == n \div d
        r == n - q * d
    IN  IF 2 * r < d THEN q
        ELSE IF 2 * r > d THEN q + 1
        ELSE IF q % 2 = 0 THEN q ELSE q + 1

\* round(x, k) of the rational x, as an integer number of 10^-k units (scale
\* is 10^k): the integer part and the fraction are scaled apart.
RoundTo(x, scale) ==
    LET q == x[1] \div x[2]
    IN  q * scale + RoundHalfEven((x[1] - q * x[2]) * scale, x[2])

\* All sequences that list the set S once each with no element placed before
\* one that Before(_, _) puts ahead of it: the results ORDER BY may return.
OrderedSeqs(S, Before(_, _)) ==
    {q \in [1..Cardinality(S) -> S] :
        /\ \A i, j \in 1..Cardinality(S) : i # j => q[i] # q[j]
        /\ \A i, j \in 1..Cardinality(S) : i < j => ~Before(q[j], q[i])}

RECURSIVE SeqMap(_, _)
SeqMap(F(_), q) == IF q = <<>> THEN <<>> ELSE <<F(q[1])>> \o SeqMap(F, Tail(q))

(***************************************************************************)
(* The three depreciation queries (src/app.py 1838-2103).                  *)
(***************************************************************************)
\* Mutant: the filter month_date >= start_date is missing.
first_price_sq_no_start(db, start_date, end_date) ==
    LET dates(v) ==
            {m.month_date : m \in {m \in db.reference_months :
                /\ m.month_date <= end_date
                /\ \E p \in db.car_prices :
                      p.reference_month_id = m.id /\ p.model_year_id = v}}
        ids == {p.model_year_id : p \in db.car_prices}
    IN  {[model_year_id |-> v, first_date |-> Min(dates(v)), last_date |-> Max(dates(v))] :
            v \in {v \in ids : dates(v) # {} /\ Min(dates(v)) < Max(dates(v))}}

\* Subquery first_price_sq: per ModelYear, the first and the last month_date
\* with a price inside [start_date, end_date], HAVING first < last.
first_price_sq(db, start_date, end_date) ==
    LET dates(v) ==
            {m.month_date : m \in {m \in db.reference_months :
                /\ m.month_date >= start_date
                /\ m.month_date <= end_date
                /\ \E p \in db.car_prices :
                      p.reference_month_id = m.id /\ p.model_year_id = v}}
        ids == {p.model_year_id : p \in db.car_prices}
    IN  {[model_year_id |-> v, first_date |-> Min(dates(v)), last_date |-> Max(dates(v))] :
            v \in {v \in ids : dates(v) # {} /\ Min(dates(v)) < Max(dates(v))}}

\* Mutant: the first price is the one of the earliest month of the ModelYear
\* in the whole table.
first_prices_earliest(db, sq) ==
    {[model_year_id |-> p.model_year_id, first_price |-> p.price,
      reference_month_id |-> p.reference_month_id] :
        p \in {p \in db.car_prices : \E m \in db.reference_months, s \in sq :
                 /\ m.id = p.reference_month_id
                 /\ s.model_year_id = p.model_year_id
                 /\ \A q \in db.car_prices, n \in db.reference_months :
                       (q.model_year_id = p.model_year_id /\ n.id = q.reference_month_id)
                           => m.month_date <= n.month_date}}

\* Subqueries first_prices and last_prices: the CarPrice rows of the ModelYear
\* whose month has the first (last) date.
first_prices(db, sq) ==
    {[model_year_id |-> p.model_year_id, first_price |-> p.price,
      reference_month_id |-> p.reference_month_id] :
        p \in {p \in db.car_prices : \E m \in db.reference_months, s \in sq :
                 /\ m.id = p.reference_month_id
                 /\ s.model_year_id = p.model_year_id
                 /\ m.month_date = s.first_date}}
last_prices(db, sq) ==
    {[model_year_id |-> p.model_year_id, last_price |-> p.price,
      reference_month_id |-> p.reference_month_id] :
        p \in {p \in db.car_prices : \E m \in db.reference_months, s \in sq :
                 /\ m.id = p.reference_month_id
                 /\ s.model_year_id = p.model_year_id
                 /\ m.month_date = s.last_date}}

\* ModelYear JOIN first_price_sq JOIN first_prices JOIN last_prices.
priced_years(db, start_date, end_date) ==
    LET sq == first_price_sq(db, start_date, end_date)
    IN  {[my |-> r[1], sq |-> r[2], fp |-> r[3], lp |-> r[4]] :
            r \in {r \in db.model_years \X sq \X first_prices(db, sq) \X last_prices(db, sq) :
                     /\ r[1].id = r[2].model_year_id
                     /\ r[1].id = r[3].model_year_id
                     /\ r[1].id = r[4].model_year_id}}

\* Mutant: the year has 365 days.
annual_rate_365(r) ==
    Rat((r.lp.last_price - r.fp.first_price) * 36500,
        r.fp.first_price * (r.sq.last_date - r.sq.first_date))

\* ((last - first) / first) * 100 * (365.25 / (julianday(last) - julianday(first)))
annual_rate(r) ==
    Rat((r.lp.last_price - r.fp.first_price) * 36525,
        r.fp.first_price * (r.sq.last_date - r.sq.first_date))

RECURSIVE RateSum(_)
RateSum(R) ==
    IF R = {} THEN <<0, 1>>
    ELSE LET r == CHOOSE x \in R : TRUE
         IN  RatAdd(annual_rate(r), RateSum(R \ {r}))

\* func.avg over the joined rows of one group.
avg_rate(R) == LET s == RateSum(R) IN Rat(s[1], s[2] * Cardinality(R))

\* The result dict entries share these three fields.
rate_fields(avg) ==
    [avg_depreciation_rate |-> RoundTo(avg, 100),
     value_retention |-> RoundTo(RatAdd(<<100, 1>>, avg), 10)]

\* Mutant: two models are sample enough.
having_sample_size_two(sample_size) == sample_size >= 2

\* .having(func.count(distinct(CarModel.id)) >= 3)
having_sample_size(sample_size) == sample_size >= 3

\* Mutant: the sample size of a brand counts its variants, not its models.
brand_groups_count_variants(db, start_date, end_date) ==
    LET rows == {[b |-> b, cm |-> cm, r |-> r] :
                    b \in db.brands, cm \in db.car_models,
                    r \in priced_years(db, start_date, end_date)}
        joined == {x \in rows : x.cm.brand_id = x.b.id /\ x.r.my.car_model_id = x.cm.id}
        of(b) == {x \in joined : x.b = b}
    IN  {[brand_id |-> b.id, brand_name |-> b.brand_name,
          sample_size |-> Cardinality({x.r.my.id : x \in of(b)}),
          avg |-> avg_rate({x.r : x \in of(b)})] :
            b \in {b \in db.brands :
                     of(b) # {} /\ having_sample_size(Cardinality({x.cm.id : x \in of(b)}))}}

\* Mutant: rows are ordered by the rate they display, rounded to two decimals.
avg_desc_rounded(x, y) == RoundTo(y.avg, 100) < RoundTo(x.avg, 100)

\* .order_by(func.avg(...).desc()): x comes before y.
avg_desc(x, y) == RatLess(y.avg, x.avg)

\* _calculate_brand_depreciation: Brand JOIN CarModel JOIN ModelYear JOIN the
\* subqueries, GROUP BY brand HAVING count(distinct model) >= 3, ORDER BY avg DESC.
brand_groups(db, start_date, end_date) ==
    LET rows == {[b |-> b, cm |-> cm, r |-> r] :
                    b \in db.brands, cm \in db.car_models,
                    r \in priced_years(db, start_date, end_date)}
        joined == {x \in rows : x.cm.brand_id = x.b.id /\ x.r.my.car_model_id = x.cm.id}
        of(b) == {x \in joined : x.b = b}
    IN  {[brand_id |-> b.id, brand_name |-> b.brand_name,
          sample_size |-> Cardinality({x.cm.id : x \in of(b)}),
          avg |-> avg_rate({x.r : x \in of(b)})] :
            b \in {b \in db.brands :
                     of(b) # {} /\ having_sample_size(Cardinality({x.cm.id : x \in of(b)}))}}

brand_row(g) ==
    [brand_id |-> g.brand_id, brand_name |-> g.brand_name,
     avg_depreciation_rate |-> rate_fields(g.avg).avg_depreciation_rate,
     value_retention |-> rate_fields(g.avg).value_retention,
     sample_size |-> g.sample_size]

_calculate_brand_depreciation(db, start_date, end_date) ==
    {SeqMap(brand_row, q) :
        q \in OrderedSeqs(brand_groups(db, start_date, end_date), avg_desc)}

\* SQL substr(s, 1, n): the first n characters.
SqlSubstr(s, n) == SubSeq(s, 1, IF Len(s) < n THEN Len(s) ELSE n)

\* SQL CAST(text AS INTEGER): the value of the longest prefix of decimal
\* digits, 0 when there is none.
RECURSIVE DigitsValue(_, _)
DigitsValue(s, acc) ==
    IF s = <<>> \/ s[1] < 48 \/ s[1] > 57 THEN acc
    ELSE DigitsValue(Tail(s), acc * 10 + (s[1] - 48))
SqlCastInteger(s) == DigitsValue(s, 0)

\* Mutant: a model year equal to a threshold falls into the older bucket.
year_group_strict(year_description) ==
    LET y == SqlCastInteger(SqlSubstr(year_description, 4))
    IN  IF y > 2020 THEN <<50, 48, 50, 48, 45, 50, 48, 50, 52>>
        ELSE IF y > 2015 THEN <<50, 48, 49, 53, 45, 50, 48, 49, 57>>
        ELSE IF y > 2010 THEN <<50, 48, 49, 48, 45, 50, 48, 49, 52>>
        ELSE IF y > 2005 THEN <<50, 48, 48, 53, 45, 50, 48, 48, 57>>
        ELSE <<60, 50, 48, 48, 53>>

\* The CASE expression year_group.
year_group(year_description) ==
    LET y == SqlCastInteger(SqlSubstr(year_description, 4))
    IN  IF y >= 2020 THEN <<50, 48, 50, 48, 45, 50, 48, 50, 52>>       \* '2020-2024'
        ELSE IF y >= 2015 THEN <<50, 48, 49, 53, 45, 50, 48, 49, 57>>  \* '2015-2019'
        ELSE IF y >= 2010 THEN <<50, 48, 49, 48, 45, 50, 48, 49, 52>>  \* '2010-2014'
        ELSE IF y >= 2005 THEN <<50, 48, 48, 53, 45, 50, 48, 48, 57>>  \* '2005-2009'
        ELSE <<60, 50, 48, 48, 53>>                                    \* '<2005'

\* _calculate_year_group_depreciation: ModelYear JOIN the subqueries,
\* GROUP BY year_group ORDER BY year_group DESC.
year_groups_of(db, start_date, end_date) ==
    LET joined == priced_years(db, start_date, end_date)
        of(l) == {r \in joined : year_group(r.my.year_description) = l}
    IN  {[year_range |-> l,
          sample_size |-> Cardinality({r.my.id : r \in of(l)}),
          avg |-> avg_rate(of(l))] :
            l \in {year_group(r.my.year_description) : r \in joined}}

year_group_row(g) ==
    [year_range |-> g.year_range,
     avg_depreciation_rate |-> rate_fields(g.avg).avg_depreciation_rate,
     value_retention |-> rate_fields(g.avg).value_retention,
     sample_size |-> g.sample_size]

_calculate_year_group_depreciation(db, start_date, end_date) ==
    {SeqMap(year_group_row, q) :
        q \in OrderedSeqs(year_groups_of(db, start_date, end_date),
                          LAMBDA x, y : StrLess(y.year_range, x.year_range))}

\* Mutant: models with a single qualifying variant are left out.
model_groups_min_two(db, start_date, end_date, brand_id) ==
    LET rows == {[cm |-> cm, r |-> r] :
                    cm \in db.car_models, r \in priced_years(db, start_date, end_date)}
        joined == {x \in rows : x.r.my.car_model_id = x.cm.id /\ x.cm.brand_id = brand_id}
        of(cm) == {x \in joined : x.cm = cm}
    IN  {[model_id |-> cm.id, model_name |-> cm.model_name,
          sample_size |-> Cardinality({x.r.my.id : x \in of(cm)}),
          avg |-> avg_rate({x.r : x \in of(cm)})] :
            cm \in {c \in {x.cm : x \in joined} : Cardinality(of(c)) >= 2}}

\* _calculate_model_depreciation: CarModel JOIN ModelYear JOIN the subqueries,
\* WHERE brand_id, GROUP BY model ORDER BY avg DESC.
model_groups(db, start_date, end_date, brand_id) ==
    LET rows == {[cm |-> cm, r |-> r] :
                    cm \in db.car_models, r \in priced_years(db, start_date, end_date)}
        joined == {x \in rows : x.r.my.car_model_id = x.cm.id /\ x.cm.brand_id = brand_id}
        of(cm) == {x \in joined : x.cm = cm}
    IN  {[model_id |-> cm.id, model_name |-> cm.model_name,
          sample_size |-> Cardinality({x.r.my.id : x \in of(cm)}),
          avg |-> avg_rate({x.r : x \in of(cm)})] :
            cm \in {x.cm : x \in joined}}

model_row(g) ==
    [model_id |-> g.model_id, model_name |-> g.model_name,
     avg_depreciation_rate |-> rate_fields(g.avg).avg_depreciation_rate,
     value_retention |-> rate_fields(g.avg).value_retention,
     sample_size |-> g.sample_size]

_calculate_model_depreciation(db, start_date, end_date, brand_id) ==
    {SeqMap(model_row, q) :
        q \in OrderedSeqs(model_groups(db, start_date, end_date, brand_id), avg_desc)}

\* The result dict of the calculator body; "models" is present only when a
\* brand_id was given.
analysis_result(t, start_date, end_date, brands, year_groups, models) ==
    LET period == [start_date |-> IsoFormat(start_date),
                   end_date |-> IsoFormat(end_date),
                   months |-> RoundHalfEven(end_date - start_date, 30)]
    IN  IF IsNone(models)
        THEN [calculated_at |-> t, analysis_period |-> period,
              brands |-> brands, year_groups |-> year_groups]
        ELSE [calculated_at |-> t, analysis_period |-> period,
              brands |-> brands, year_groups |-> year_groups, models |-> Get(models)]

\* Mutant: the window starts a clock-dependent number of days early.
calculate_body_clock_window(db, t, start_date, end_date, brand_id) ==
    {analysis_result(t, start_date - t, end_date, b, y, None) :
        b \in _calculate_brand_depreciation(db, start_date - t, end_date),
        y \in _calculate_year_group_depreciation(db, start_date - t, end_date)}

\* Mutant: with a brand given, the brand rows and the year groups are those of
\* that brand alone.
calculate_body_brand_scoped(db, t, start_date, end_date, brand_id) ==
    LET given == ~(IsNone(brand_id) \/ Get(brand_id) = 0)
        scoped == IF given
                  THEN [db EXCEPT !.car_models =
                           {cm \in @ : cm.brand_id = Get(brand_id)}]
                  ELSE db
    IN  {analysis_result(t, start_date, end_date, b, y, m) :
            b \in _calculate_brand_depreciation(scoped, start_date, end_date),
            y \in _calculate_year_group_depreciation(
                     [scoped EXCEPT !.model_years =
                         {my \in @ : \E cm \in scoped.car_models : cm.id = my.car_model_id}],
                     start_date, end_date),
            m \in IF ~given THEN {None}
                  ELSE {Some(q) : q \in _calculate_model_depreciation(
                                            db, start_date, end_date, Get(brand_id))}}

\* Mutant: a brand without model rows gets the result of a call without brand.
calculate_body_models_if_any(db, t, start_date, end_date, brand_id) ==
    {analysis_result(t, start_date, end_date, b, y, m) :
        b \in _calculate_brand_depreciation(db, start_date, end_date),
        y \in _calculate_year_group_depreciation(db, start_date, end_date),
        m \in IF IsNone(brand_id) \/ Get(brand_id) = 0 THEN {None}
              ELSE {IF q = <<>> THEN None ELSE Some(q) :
                       q \in _calculate_model_depreciation(
                                 db, start_date, end_date, Get(brand_id))}}

\* The results the body of _calculate_depreciation_analysis can return when it
\* runs at clock reading t: one per order the queries may deliver tied rows in.
calculate_body(db, t, start_date, end_date, brand_id) ==
    {analysis_result(t, start_date, end_date, b, y, m) :
        b \in _calculate_brand_depreciation(db, start_date, end_date),
        y \in _calculate_year_group_depreciation(db, start_date, end_date),
        m \in IF IsNone(brand_id) \/ Get(brand_id) = 0 THEN {None}
              ELSE {Some(q) : q \in _calculate_model_depreciation(
                                        db, start_date, end_date, Get(brand_id))}}

(***************************************************************************)
(* functools.lru_cache(maxsize=10) around the calculator.  The cache is the*)
(* sequence of its links from the oldest (root.next) to the newest; a key  *)
(* is the tuple of the positional arguments of the call.                   *)
(***************************************************************************)
maxsize == 10

lru_keys(cache) == {cache[i].key : i \in 1..Len(cache)}
lru_index(cache, key) == CHOOSE i \in 1..Len(cache) : cache[i].key = key
\* Mutant: the wrapper hands back the oldest link's result.
lru_result_oldest(cache, key) == cache[1].result
lru_result(cache, key) == cache[lru_index(cache, key)].result

\* Mutant: a hit leaves the links in insertion order.
lru_hit_unmoved(cache, key) == cache

\* A hit moves the link of the key to the newest end.
lru_hit(cache, key) ==
    LET i == lru_index(cache, key)
    IN  SubSeq(cache, 1, i - 1) \o SubSeq(cache, i + 1, Len(cache)) \o <<cache[i]>>

\* Mutant: a miss never drops a link.
lru_put_unbounded(cache, key, result) == Append(cache, [key |-> key, result |-> result])

\* A miss stores the result as the newest link; a full cache first drops its
\* oldest link.
lru_put(cache, key, result) ==
    LET link == [key |-> key, result |-> result]
    IN  IF Len(cache) >= maxsize THEN Tail(cache) \o <<link>>
        ELSE Append(cache, link)

\* History of uses: the key moves to the newest end, keys no longer cached go.
RECURSIVE Without(_, _)
Without(q, x) ==
    IF q = <<>> THEN <<>>
    ELSE IF q[1] = x THEN Without(Tail(q), x)
    ELSE <<q[1]>> \o Without(Tail(q), x)
RECURSIVE Keep(_, _)
Keep(q, S) ==
    IF q = <<>> THEN <<>>
    ELSE IF q[1] \in S THEN <<q[1]>> \o Keep(Tail(q), S)
    ELSE Keep(Tail(q), S)
Used(q, key, cached) == Keep(Append(Without(q, key), key), cached)

(***************************************************************************)
(* GET /api/depreciation-analysis (computeReport).                         *)
(***************************************************************************)
\* Mutant: zero passes as positive.
validate_positive_integer_weak(value) ==
    IF IsNone(value) THEN <<None, Some("is required")>>
    ELSE IF Get(value) < 0 THEN <<None, Some("must be a positive integer")>>
    ELSE <<value, None>>

\* validate_positive_integer: <<validated value, error message>>.
validate_positive_integer(value) ==
    IF IsNone(value) THEN <<None, Some("is required")>>
    ELSE IF Get(value) <= 0 THEN <<None, Some("must be a positive integer")>>
    ELSE <<value, None>>

\* f"{latest_month.isoformat()}_{months}_{brand_id or 'all'}"
cache_key_of(latest_month, months, brand_id) ==
    IsoFormat(latest_month) \o <<95>> \o Str(months) \o <<95>>
        \o (IF IsNone(brand_id) \/ Get(brand_id) = 0 THEN <<97, 108, 108>>
            ELSE Str(Get(brand_id)))

\* Mutant: the key leaves out the latest month.
call_key_without_cutoff(latest_month, months, brand_id) ==
    <<Str(months), months * 30, 0, brand_id>>

\* The positional arguments of the cached call: the lru_cache key.
call_key(latest_month, months, brand_id) ==
    <<cache_key_of(latest_month, months, brand_id),
      latest_month - months * 30, latest_month, brand_id>>

\* Mutant: closing the session commits a row added to it.
db_close_committing(db) ==
    [db EXCEPT !.reference_months =
        @ \cup {[id |-> Cardinality(@) + 1, month_date |-> 738886]}]

\* The session is closed without a flush or commit: the tables stay as read.
db_close(db) == db

Failure(months, brand_id_raw, status, message, resolved) ==
    /\ resp' = [op |-> "depreciation_analysis", months |-> months, brand_id |-> brand_id_raw,
                status |-> status, body |-> [error |-> message],
                resolved |-> resolved, latest |-> None, key |-> None, hit |-> FALSE]
    /\ store' = db_close(store)
    /\ UNCHANGED <<lru, now, calc_runs, uses, evictions, writes, served>>

\* The view function itself, as require_api_key calls it.
get_depreciation_analysis_view(months, brand_id_raw) ==
    /\ calls' = calls + 1
    /\ UNCHANGED <<inflight, config, session>>
    /\ IF months < 1 \/ months > 60
       THEN Failure(months, brand_id_raw, 400, "months must be between 1 and 60", FALSE)
       ELSE IF ~IsNone(brand_id_raw) /\ ~IsNone(validate_positive_integer(brand_id_raw)[2])
       THEN Failure(months, brand_id_raw, 400, "brand_id must be a positive integer", FALSE)
       ELSE LET latest_month == get_latest_reference_month(store)
            IN  IF IsNone(latest_month)
                THEN Failure(months, brand_id_raw, 404,
                             "No reference months found in database", TRUE)
                ELSE LET brand_id == IF IsNone(brand_id_raw) THEN None
                                     ELSE validate_positive_integer(brand_id_raw)[1]
                         start_date == Get(latest_month) - months * 30
                         key == call_key(Get(latest_month), months, brand_id)
                     IN  IF key \in lru_keys(lru)
                         THEN /\ lru' = lru_hit(lru, key)
                              /\ resp' = [op |-> "depreciation_analysis", months |-> months,
                                          brand_id |-> brand_id_raw, status |-> 200,
                                          body |-> lru_result(lru, key), resolved |-> TRUE,
                                          latest |-> latest_month, key |-> Some(key),
                                          hit |-> TRUE]
                              /\ uses' = Used(uses, key, lru_keys(lru'))
                              /\ store' = db_close(store)
                              /\ UNCHANGED <<now, calc_runs, evictions, writes, served>>
                         ELSE \E result \in calculate_body(store, now, start_date,
                                                           Get(latest_month), brand_id) :
                              /\ lru' = lru_put(lru, key, result)
                              /\ resp' = [op |-> "depreciation_analysis", months |-> months,
                                          brand_id |-> brand_id_raw, status |-> 200,
                                          body |-> result, resolved |-> TRUE,
                                          latest |-> latest_month, key |-> Some(key),
                                          hit |-> FALSE]
                              /\ now' = now + 1
                              /\ calc_runs' = calc_runs + 1
                              /\ uses' = Used(uses, key, lru_keys(lru'))
                              /\ evictions' = evictions
                                     + Cardinality(lru_keys(lru) \ lru_keys(lru'))
                              /\ served' = DictSet(served, key, result)
                              /\ store' = db_close(db_close(store))
                              /\ UNCHANGED writes

\* The request once the guard has let it through.
get_depreciation_analysis(months, brand_id_raw) ==
    /\ get_depreciation_analysis_view(months, brand_id_raw)
    /\ UNCHANGED request

\* Mutant: the wrapper stores the failure as the result of the key.
wrapper_raise_cached(cache, key) ==
    lru_put(cache, key, [error |-> "Database error occurred"])

\* An exception raised by the function body passes through the lru_cache
\* wrapper, which stores nothing for the key.
wrapper_raise(cache, key) == cache

\* The request when a query of the calculator raises SQLAlchemyError: the key
\* was looked up and missed, the body ran up to the failing query (before it
\* reads the clock), both sessions are closed, and the handler answers 500.
get_depreciation_analysis_db_error(months, brand_id_raw) ==
    /\ months >= 1 /\ months <= 60
    /\ IsNone(brand_id_raw) \/ IsNone(validate_positive_integer(brand_id_raw)[2])
    /\ ~IsNone(get_latest_reference_month(store))
    /\ LET latest_month == get_latest_reference_month(store)
           brand_id == IF IsNone(brand_id_raw) THEN None
                       ELSE validate_positive_integer(brand_id_raw)[1]
           key == call_key(Get(latest_month), months, brand_id)
       IN  /\ key \notin lru_keys(lru)
           /\ lru' = wrapper_raise(lru, key)
           /\ resp' = [op |-> "depreciation_analysis", months |-> months,
                       brand_id |-> brand_id_raw, status |-> 500,
                       body |-> [error |-> "Database error occurred"],
                       resolved |-> TRUE, latest |-> latest_month,
                       key |-> Some(key), hit |-> FALSE]
    /\ calls' = calls + 1
    /\ calc_runs' = calc_runs + 1
    /\ store' = db_close(db_close(store))
    /\ UNCHANGED <<now, uses, evictions, writes, served, inflight, authvars>>

(***************************************************************************)
(* The same request as the steps of one worker thread.  The lru_cache      *)
(* wrapper looks the key up under its lock, calls the function with the    *)
(* lock released, and takes the lock again to store the result; other      *)
(* threads run between these steps.                                        *)
(***************************************************************************)
Threads == 1..NumThreads

Idle == [pc |-> "idle", months |-> 0, brand_id |-> None, latest |-> None,
         key |-> None, result |-> None]

\* Mutant: the result is stored without a second look at the cache.
wrapper_store_blind(cache, key, result) == lru_put(cache, key, result)

\* Mutant: a key added during the call gets the later result.
wrapper_store_overwrite(cache, key, result) ==
    IF key \in lru_keys(cache)
    THEN [cache EXCEPT ![lru_index(cache, key)].result = result]
    ELSE lru_put(cache, key, result)

\* After the call: a key that was added to the cache during the call is left
\* as it is; otherwise the result becomes the newest link.
wrapper_store(cache, key, result) ==
    IF key \in lru_keys(cache) THEN cache ELSE lru_put(cache, key, result)

\* The handler up to the call of the cached function.
handler_enter(t, months, brand_id_raw) ==
    /\ inflight[t].pc = "idle"
    /\ calls' = calls + 1
    /\ IF months < 1 \/ months > 60
       THEN /\ Failure(months, brand_id_raw, 400, "months must be between 1 and 60", FALSE)
            /\ UNCHANGED inflight
       ELSE IF ~IsNone(brand_id_raw) /\ ~IsNone(validate_positive_integer(brand_id_raw)[2])
       THEN /\ Failure(months, brand_id_raw, 400, "brand_id must be a positive integer", FALSE)
            /\ UNCHANGED inflight
       ELSE LET latest_month == get_latest_reference_month(store)
            IN  IF IsNone(latest_month)
                THEN /\ Failure(months, brand_id_raw, 404,
                                "No reference months found in database", TRUE)
                     /\ UNCHANGED inflight
                ELSE LET brand_id == IF IsNone(brand_id_raw) THEN None
                                     ELSE validate_positive_integer(brand_id_raw)[1]
                         key == call_key(Get(latest_month), months, brand_id)
                     IN  /\ inflight' = [inflight EXCEPT ![t] =
                                [pc |-> "lookup", months |-> months,
                                 brand_id |-> brand_id_raw, latest |-> latest_month,
                                 key |-> Some(key), result |-> None]]
                         /\ UNCHANGED <<store, lru, now, resp, calc_runs, uses,
                                        evictions, writes, served>>

\* Mutant: the lookup waits while another thread is inside the function body
\* or about to store its result.
wrapper_lookup_serialized(t) ==
    /\ inflight[t].pc = "lookup"
    /\ \A u \in Threads \ {t} : inflight[u].pc \notin {"compute", "insert"}
    /\ LET r == inflight[t]
           key == Get(r.key)
       IN  IF key \in lru_keys(lru)
           THEN /\ lru' = lru_hit(lru, key)
                /\ resp' = [op |-> "depreciation_analysis", months |-> r.months,
                            brand_id |-> r.brand_id, status |-> 200,
                            body |-> lru_result(lru, key), resolved |-> TRUE,
                            latest |-> r.latest, key |-> r.key, hit |-> TRUE]
                /\ uses' = Used(uses, key, lru_keys(lru'))
                /\ store' = db_close(store)
                /\ inflight' = [inflight EXCEPT ![t] = Idle]
                /\ UNCHANGED <<now, calls, calc_runs, evictions, writes, served>>
           ELSE /\ inflight' = [inflight EXCEPT ![t].pc = "compute"]
                /\ UNCHANGED <<store, lru, now, calls, resp, calc_runs, uses,
                               evictions, writes, served>>

\* The wrapper's lookup: a hit returns the cached result and ends the request.
wrapper_lookup(t) ==
    /\ inflight[t].pc = "lookup"
    /\ LET r == inflight[t]
           key == Get(r.key)
       IN  IF key \in lru_keys(lru)
           THEN /\ lru' = lru_hit(lru, key)
                /\ resp' = [op |-> "depreciation_analysis", months |-> r.months,
                            brand_id |-> r.brand_id, status |-> 200,
                            body |-> lru_result(lru, key), resolved |-> TRUE,
                            latest |-> r.latest, key |-> r.key, hit |-> TRUE]
                /\ uses' = Used(uses, key, lru_keys(lru'))
                /\ store' = db_close(store)
                /\ inflight' = [inflight EXCEPT ![t] = Idle]
                /\ UNCHANGED <<now, calls, calc_runs, evictions, writes, served>>
           ELSE /\ inflight' = [inflight EXCEPT ![t].pc = "compute"]
                /\ UNCHANGED <<store, lru, now, calls, resp, calc_runs, uses,
                               evictions, writes, served>>

\* The call of the function body, with the lock released.
wrapper_call(t) ==
    /\ inflight[t].pc = "compute"
    /\ LET key == Get(inflight[t].key)
       IN  \E result \in calculate_body(store, now, key[2], key[3], key[4]) :
               inflight' = [inflight EXCEPT ![t].pc = "insert",
                                            ![t].result = Some(result)]
    /\ now' = now + 1
    /\ calc_runs' = calc_runs + 1
    /\ store' = db_close(store)
    /\ UNCHANGED <<lru, calls, resp, uses, evictions, writes, served>>

\* The wrapper stores the result and the handler answers with it.
wrapper_return(t) ==
    /\ inflight[t].pc = "insert"
    /\ LET r == inflight[t]
           key == Get(r.key)
           result == Get(r.result)
       IN  /\ lru' = wrapper_store(lru, key, result)
           /\ resp' = [op |-> "depreciation_analysis", months |-> r.months,
                       brand_id |-> r.brand_id, status |-> 200,
                       body |-> result, resolved |-> TRUE,
                       latest |-> r.latest, key |-> r.key, hit |-> FALSE]
           /\ uses' = IF key \in lru_keys(lru) THEN uses
                      ELSE Used(uses, key, lru_keys(lru'))
           /\ evictions' = evictions + Cardinality(lru_keys(lru) \ lru_keys(lru'))
           /\ served' = IF key \in lru_keys(lru) THEN served
                        ELSE DictSet(served, key, result)
    /\ store' = db_close(store)
    /\ inflight' = [inflight EXCEPT ![t] = Idle]
    /\ UNCHANGED <<now, calls, calc_runs, writes>>

(***************************************************************************)
(* GET /api/vehicle-options/<brand_id> (buildIndex).                       *)
(***************************************************************************)
\* Python's sorted(): a stable insertion of each element in turn.
\* sorted(q, reverse=True) of strings and sorted(q) of ints.
RECURSIVE InsertStrDesc(_, _)
InsertStrDesc(q, x) ==
    IF q = <<>> THEN <<x>>
    ELSE IF StrLess(q[1], x) THEN <<x>> \o q
    ELSE <<q[1]>> \o InsertStrDesc(Tail(q), x)
RECURSIVE SortedStrDescFrom(_, _)
SortedStrDescFrom(q, acc) ==
    IF q = <<>> THEN acc ELSE SortedStrDescFrom(Tail(q), InsertStrDesc(acc, q[1]))
\* Mutant: reverse=True is forgotten.
RECURSIVE InsertStrAsc(_, _)
InsertStrAsc(q, x) ==
    IF q = <<>> THEN <<x>>
    ELSE IF StrLess(x, q[1]) THEN <<x>> \o q
    ELSE <<q[1]>> \o InsertStrAsc(Tail(q), x)
RECURSIVE SortedStrAscFrom(_, _)
SortedStrAscFrom(q, acc) ==
    IF q = <<>> THEN acc ELSE SortedStrAscFrom(Tail(q), InsertStrAsc(acc, q[1]))
sorted_forward(q) == SortedStrAscFrom(q, <<>>)

sorted_reverse(q) == SortedStrDescFrom(q, <<>>)

RECURSIVE InsertInt(_, _)
InsertInt(q, x) ==
    IF q = <<>> THEN <<x>>
    ELSE IF x < q[1] THEN <<x>> \o q
    ELSE <<q[1]>> \o InsertInt(Tail(q), x)
RECURSIVE SortedIntFrom(_, _)
SortedIntFrom(q, acc) ==
    IF q = <<>> THEN acc ELSE SortedIntFrom(Tail(q), InsertInt(acc, q[1]))
sorted(q) == SortedIntFrom(q, <<>>)

\* list(set(...)): the elements once each, in an order of the set's own.
RECURSIVE ListOfSet(_)
ListOfSet(S) ==
    IF S = {} THEN <<>>
    ELSE LET x == CHOOSE y \in S : TRUE IN <<x>> \o ListOfSet(S \ {x})


\* Mutant: a price in any month counts.
priced_at_any_month(db, model_year_id, latest_month) ==
    \E p \in db.car_prices, m \in db.reference_months :
        p.model_year_id = model_year_id /\ p.reference_month_id = m.id

\* The rows of a table that have a price in a month dated latest_month.
priced_at(db, model_year_id, latest_month) ==
    \E p \in db.car_prices, m \in db.reference_months :
        /\ p.model_year_id = model_year_id
        /\ p.reference_month_id = m.id
        /\ m.month_date = latest_month

\* Mutant: every model of the brand is listed, priced or not.
models_query_whole_brand(db, brand_id, latest_month) ==
    OrderedSeqs({cm \in db.car_models : cm.brand_id = brand_id},
                LAMBDA x, y : StrLess(x.model_name, y.model_name))

\* Query "models": CarModel JOIN years JOIN prices JOIN reference_month,
\* WHERE brand_id and month_date, DISTINCT, ORDER BY model_name.
models_query(db, brand_id, latest_month) ==
    OrderedSeqs({cm \in db.car_models :
                    /\ cm.brand_id = brand_id
                    /\ \E my \in db.model_years :
                          my.car_model_id = cm.id /\ priced_at(db, my.id, latest_month)},
                LAMBDA x, y : StrLess(x.model_name, y.model_name))

\* Query "model_years": ModelYear JOIN car_model JOIN prices JOIN reference_month,
\* WHERE brand_id and month_date, DISTINCT, ORDER BY year_description DESC.
model_years_query(db, brand_id, latest_month) ==
    OrderedSeqs({my \in db.model_years :
                    /\ \E cm \in db.car_models :
                          cm.id = my.car_model_id /\ cm.brand_id = brand_id
                    /\ priced_at(db, my.id, latest_month)},
                LAMBDA x, y : StrLess(y.year_description, x.year_description))

models_list_of(models) == SeqMap(LAMBDA cm : [id |-> cm.id, name |-> cm.model_name], models)

\* sorted(list(set(my.year_description for my in model_years)), reverse=True)
year_descriptions_of(model_years) ==
    sorted_reverse(ListOfSet({model_years[i].year_description : i \in 1..Len(model_years)}))

\* The loop that fills model_to_years, then the loop that sorts each list.
RECURSIVE model_to_years_fill(_, _)
model_to_years_fill(model_years, d) ==
    IF model_years = <<>> THEN d
    ELSE LET my == model_years[1]
             k  == Str(my.car_model_id)
             d1 == IF k \in DOMAIN d THEN d ELSE DictSet(d, k, <<>>)
             d2 == IF InList(my.year_description, d1[k]) THEN d1
                   ELSE DictSet(d1, k, Append(d1[k], my.year_description))
         IN  model_to_years_fill(Tail(model_years), d2)
model_to_years_of(model_years) ==
    LET d == model_to_years_fill(model_years, <<>>)
    IN  [k \in DOMAIN d |-> sorted_reverse(d[k])]

\* The loop that fills year_to_models, then the loop that sorts each list.
RECURSIVE year_to_models_fill(_, _)
year_to_models_fill(model_years, d) ==
    IF model_years = <<>> THEN d
    ELSE LET my == model_years[1]
             k  == my.year_description
             d1 == IF k \in DOMAIN d THEN d ELSE DictSet(d, k, <<>>)
             d2 == IF InList(my.car_model_id, d1[k]) THEN d1
                   ELSE DictSet(d1, k, Append(d1[k], my.car_model_id))
         IN  year_to_models_fill(Tail(model_years), d2)
year_to_models_of(model_years) ==
    LET d == year_to_models_fill(model_years, <<>>)
    IN  [k \in DOMAIN d |-> sorted(d[k])]

\* The loop that fills model_year_lookup: a later row overwrites an earlier one.
RECURSIVE model_year_lookup_fill(_, _)
model_year_lookup_fill(model_years, d) ==
    IF model_years = <<>> THEN d
    ELSE LET my == model_years[1]
             k  == Str(my.car_model_id)
             d1 == IF k \in DOMAIN d THEN d ELSE DictSet(d, k, <<>>)
             d2 == DictSet(d1, k, DictSet(d1[k], my.year_description, my.id))
         IN  model_year_lookup_fill(Tail(model_years), d2)
model_year_lookup_of(model_years) == model_year_lookup_fill(model_years, <<>>)

vehicle_options(models, model_years) ==
    [models |-> models_list_of(models),
     year_descriptions |-> year_descriptions_of(model_years),
     model_to_years |-> model_to_years_of(model_years),
     year_to_models |-> year_to_models_of(model_years),
     model_year_lookup |-> model_year_lookup_of(model_years)]

\* Mutant: the early return reports not-found, as the depreciation handler does.
no_months_response_not_found ==
    [status |-> 404, body |-> [error |-> "No reference months found in database"]]

\* The early return when the store has no reference month.
no_months_response ==
    [status |-> 200,
     body |-> [models |-> <<>>, year_descriptions |-> <<>>, model_to_years |-> <<>>,
               year_to_models |-> <<>>, model_year_lookup |-> <<>>]]

get_vehicle_options(brand_id) ==
    /\ LET latest_month == get_latest_reference_month(store)
       IN  IF IsNone(latest_month)
           THEN resp' = [op |-> "vehicle_options", brand_id |-> brand_id,
                         status |-> no_months_response.status, latest |-> None,
                         body |-> no_months_response.body]
           ELSE \E models \in models_query(store, brand_id, Get(latest_month)),
                   model_years \in model_years_query(store, brand_id, Get(latest_month)) :
                    resp' = [op |-> "vehicle_options", brand_id |-> brand_id,
                             status |-> 200, latest |-> latest_month,
                             body |-> vehicle_options(models, model_years)]
    /\ store' = db_close(store)
    /\ UNCHANGED <<lru, now, calls, calc_runs, uses, evictions, writes, served, inflight,
                   authvars>>

(***************************************************************************)
(* require_api_key, the guard in front of the /api endpoints, and the      *)
(* index page, which opens the browser's session.  An API key is a str, of *)
(* which the guard uses the length and equality; created_at is the day the *)
(* session was opened (the cookie is signed, so its timestamp always       *)
(* parses).                                                                *)
(***************************************************************************)
ValidKey == [i \in 1..16 |-> 97]
WrongKey == [i \in 1..16 |-> 98]
ShortKey == [i \in 1..15 |-> 97]

\* API_KEYS_ALLOWED defaults to '' and FLASK_ENV to development.
DefaultConfig == [VALID_API_KEYS |-> {}, is_production |-> FALSE]
NoSession == [authenticated |-> FALSE, created_at |-> None, today |-> 0]
NoRequest == [n |-> 0, api_key |-> None, authenticated |-> FALSE]

\* timedelta(days=7)
max_age == 7

Denied(status, error) ==
    /\ resp' = [op |-> "require_api_key", status |-> status, body |-> [error |-> error]]
    /\ UNCHANGED <<store, lru, now, calls, calc_runs, uses, evictions, writes, served,
                   inflight, config>>

\* decorated_function: f is the call of the wrapped view.
require_api_key(method, csrf_valid, api_key, f) ==
    /\ request' = [n |-> request.n + 1, api_key |-> api_key,
                   authenticated |-> session.authenticated]
    /\ IF session.authenticated
       THEN IF method \in {"POST", "PUT", "DELETE", "PATCH"} /\ ~csrf_valid
            THEN Denied(403, "CSRF validation failed") /\ UNCHANGED session
            ELSE IF /\ ~IsNone(session.created_at)
                    /\ session.today - Get(session.created_at) > max_age
            THEN /\ Denied(401, "Session expired")
                 /\ session' = [NoSession EXCEPT !.today = session.today]
            ELSE f
       ELSE IF config.VALID_API_KEYS = {}
       THEN IF config.is_production
            THEN Denied(503, "Service unavailable") /\ UNCHANGED session
            ELSE f
       ELSE IF IsNone(api_key) \/ Get(api_key) = <<>>
       THEN Denied(401, "Authentication required") /\ UNCHANGED session
       ELSE IF Len(Get(api_key)) < 16
       THEN Denied(401, "Invalid API key") /\ UNCHANGED session
       ELSE IF Get(api_key) \notin config.VALID_API_KEYS
       THEN Denied(401, "Invalid API key") /\ UNCHANGED session
       ELSE f

\* GET /: a browser without a session gets an authenticated one.
index ==
    /\ session' = IF session.authenticated THEN session
                  ELSE [authenticated |-> TRUE, created_at |-> Some(session.today),
                        today |-> session.today]
    /\ resp' = [op |-> "index", status |-> 200]
    /\ UNCHANGED <<store, lru, now, calls, calc_runs, uses, evictions, writes, served,
                   inflight, config, request>>

(***************************************************************************)
(* The scraper, the owner of the store: it appends months and prices.      *)
(***************************************************************************)
NextId(rows) == IF rows = {} THEN 1 ELSE Max({r.id : r \in rows}) + 1

AppendMonth(month_date) ==
    /\ \A m \in store.reference_months : m.month_date # month_date
    /\ store' = [store EXCEPT !.reference_months =
                    @ \cup {[id |-> NextId(@), month_date |-> month_date]}]
    /\ writes' = writes + 1
    /\ served' = <<>>
    /\ UNCHANGED <<lru, now, calls, resp, calc_runs, uses, evictions, asked, inflight,
                   authvars>>

\* UniqueConstraint('reference_month_id', 'model_year_id')
AppendPrice(reference_month_id, model_year_id, price) ==
    /\ \E m \in store.reference_months : m.id = reference_month_id
    /\ \E my \in store.model_years : my.id = model_year_id
    /\ \A p \in store.car_prices :
          ~(p.reference_month_id = reference_month_id /\ p.model_year_id = model_year_id)
    /\ store' = [store EXCEPT !.car_prices =
                    @ \cup {[reference_month_id |-> reference_month_id,
                             model_year_id |-> model_year_id, price |-> price]}]
    /\ writes' = writes + 1
    /\ served' = <<>>
    /\ UNCHANGED <<lru, now, calls, resp, calc_runs, uses, evictions, asked, inflight,
                   authvars>>

(***************************************************************************)
(* The stores and the arguments the model draws from.                      *)
(***************************************************************************)
\* 2024-04-01, 2024-05-01, 2024-06-01
Dates == {738977, 739007, 739038}
Prices == {95}

Fiat == <<70, 105, 97, 116>>
VW == <<86, 87>>
Argo == <<65, 114, 103, 111>>
Mobi == <<77, 111, 98, 105>>
Uno == <<85, 110, 111>>
Gol == <<71, 111, 108>>
Flex2024 == <<50, 48, 50, 52, 32, 70>>      \* "2024 F"
Gas2019 == <<50, 48, 49, 57, 32, 71>>       \* "2019 G"
Gas2004 == <<50, 48, 48, 52, 32, 71>>       \* "2004 G"

EmptyStore ==
    [brands |-> {[id |-> 1, brand_name |-> Fiat], [id |-> 2, brand_name |-> VW]},
     car_models |-> {[id |-> 1, brand_id |-> 1, model_name |-> Argo],
                     [id |-> 2, brand_id |-> 1, model_name |-> Mobi],
                     [id |-> 3, brand_id |-> 1, model_name |-> Uno],
                     [id |-> 4, brand_id |-> 2, model_name |-> Gol]},
     model_years |-> {[id |-> 1, car_model_id |-> 1, year_description |-> Flex2024],
                      [id |-> 2, car_model_id |-> 2, year_description |-> Gas2019],
                      [id |-> 3, car_model_id |-> 3, year_description |-> Gas2004],
                      [id |-> 4, car_model_id |-> 4, year_description |-> Flex2024]},
     reference_months |-> {},
     car_prices |-> {}]

\* April and May 2024 with the three Fiat variants priced in both.
BaseStore ==
    [EmptyStore EXCEPT
        !.reference_months = {[id |-> 1, month_date |-> 738977],
                              [id |-> 2, month_date |-> 739007]},
        !.car_prices = {[reference_month_id |-> 1, model_year_id |-> 1, price |-> 101],
                        [reference_month_id |-> 2, model_year_id |-> 1, price |-> 99],
                        [reference_month_id |-> 1, model_year_id |-> 2, price |-> 101],
                        [reference_month_id |-> 2, model_year_id |-> 2, price |-> 97],
                        [reference_month_id |-> 1, model_year_id |-> 3, price |-> 101],
                        [reference_month_id |-> 2, model_year_id |-> 3, price |-> 101]}]

MonthsArgs == {0, 1, 60, 61}
BrandArgs == {None, Some(0), Some(1), Some(2)}

InitWith(stores) ==
    /\ store \in stores
    /\ lru = <<>>
    /\ now = 0
    /\ calls = 0
    /\ resp = [op |-> "none", status |-> 0]
    /\ calc_runs = 0
    /\ uses = <<>>
    /\ evictions = 0
    /\ writes = 0
    /\ asked = 0
    /\ served = <<>>
    /\ inflight = [t \in Threads |-> Idle]
    /\ config = DefaultConfig
    /\ session = NoSession
    /\ request = NoRequest

(***************************************************************************)
(* Spec: the service over a store that grows.                              *)
(***************************************************************************)
Init == InitWith({EmptyStore, BaseStore})

ComputeReport ==
    \E months \in MonthsArgs, brand_id \in BrandArgs :
        /\ calls < MaxCalls
        /\ get_depreciation_analysis(months, brand_id)
        /\ UNCHANGED asked

BuildIndex ==
    \E brand_id \in {0, 1, 2} :
        /\ get_vehicle_options(brand_id)
        /\ UNCHANGED asked

IngestMonth ==
    \E d \in Dates : writes < MaxWrites /\ AppendMonth(d)

IngestPrice ==
    \E m \in {r.id : r \in store.reference_months},
       my \in {r.id : r \in store.model_years}, p \in Prices :
        writes < MaxWrites /\ AppendPrice(m, my, p)

Next == ComputeReport \/ BuildIndex \/ IngestMonth \/ IngestPrice

Spec == Init /\ [][Next]_vars

(***************************************************************************)
(* SpecLRU: long runs of requests against the lru_cache.  A request either *)
(* repeats one whose key is cached, or is the next pair of arguments in    *)
(* rank order, starting over after the last pair.                          *)
(***************************************************************************)
Rank(months, brand_id) == 2 * (months - 1) + (IF IsNone(brand_id) THEN 1 ELSE 2)

InitLRU == InitWith({BaseStore})

ComputeReportInOrder ==
    \E months \in 1..MaxLruMonths, brand_id \in {None, Some(1)} :
        /\ calls < MaxLruCalls
        /\ \/ /\ call_key(Get(get_latest_reference_month(store)), months, brand_id)
                    \in lru_keys(lru)
              /\ calls - calc_runs < MaxLruHits
              /\ asked' = asked
           \/ /\ Rank(months, brand_id) = (asked % (2 * MaxLruMonths)) + 1
              /\ asked' = asked + 1
        /\ get_depreciation_analysis(months, brand_id)

IngestLatestMonth ==
    /\ writes < MaxLruWrites
    /\ AppendMonth(Max(Dates))

NextLRU == ComputeReportInOrder \/ IngestLatestMonth

SpecLRU == InitLRU /\ [][NextLRU]_vars

(***************************************************************************)
(* SpecIndex: the cross-filter index over stores whose variants share      *)
(* descriptions across models and within one model.                        *)
(***************************************************************************)
Flex2024Short == <<50, 48, 50, 52>>         \* "2024"

IndexStore ==
    [EmptyStore EXCEPT
        !.model_years = @ \cup
            {[id |-> 5, car_model_id |-> 2, year_description |-> Flex2024],
             [id |-> 6, car_model_id |-> 1, year_description |-> Flex2024],
             [id |-> 7, car_model_id |-> 1, year_description |-> Flex2024Short]},
        !.reference_months = {[id |-> 1, month_date |-> 738977]}]

InitIndex == InitWith({EmptyStore, IndexStore})

BuildAnyIndex ==
    \E brand_id \in {1, 2, 3} :
        /\ get_vehicle_options(brand_id)
        /\ UNCHANGED asked

IngestIndexMonth ==
    \E d \in Dates : writes < MaxIndexWrites /\ AppendMonth(d)

IngestIndexPrice ==
    \E m \in {r.id : r \in store.reference_months},
       my \in {r.id : r \in store.model_years} :
        writes < MaxIndexWrites /\ AppendPrice(m, my, 101)

NextIndex == BuildAnyIndex \/ IngestIndexMonth \/ IngestIndexPrice

SpecIndex == InitIndex /\ [][NextIndex]_vars

(***************************************************************************)
(* SpecCalc: the calculator over windows of one to three months and of     *)
(* thirteen months, on stores where variants have prices before the        *)
(* window, on its first day, and on a single day of it.                    *)
(***************************************************************************)
Diesel2012 == <<50, 48, 49, 50, 32, 68>>    \* "2012 D"

\* April and May 2024.  Argo has two variants; Uno has no price in May.
CalcStore ==
    [EmptyStore EXCEPT
        !.model_years = @ \cup
            {[id |-> 8, car_model_id |-> 1, year_description |-> Diesel2012]},
        !.reference_months = {[id |-> 1, month_date |-> 738977],
                              [id |-> 2, month_date |-> 739007]},
        !.car_prices = {[reference_month_id |-> 1, model_year_id |-> 1, price |-> 75],
                        [reference_month_id |-> 2, model_year_id |-> 1, price |-> 71],
                        [reference_month_id |-> 1, model_year_id |-> 2, price |-> 75],
                        [reference_month_id |-> 2, model_year_id |-> 2, price |-> 73],
                        [reference_month_id |-> 1, model_year_id |-> 3, price |-> 75],
                        [reference_month_id |-> 1, model_year_id |-> 8, price |-> 75],
                        [reference_month_id |-> 2, model_year_id |-> 8, price |-> 70]}]

\* CalcStore with June 2024, in which two of the variants have a price.
JuneStore ==
    [CalcStore EXCEPT
        !.reference_months = @ \cup {[id |-> 3, month_date |-> 739038]},
        !.car_prices = @ \cup
            {[reference_month_id |-> 3, model_year_id |-> 1, price |-> 68],
             [reference_month_id |-> 3, model_year_id |-> 3, price |-> 74]}]

\* 2022-04-01 and 2023-04-01, 365 days apart: 50000 then 45000.
YearStore ==
    [EmptyStore EXCEPT
        !.reference_months = {[id |-> 1, month_date |-> 738246],
                              [id |-> 2, month_date |-> 738611]},
        !.car_prices = {[reference_month_id |-> 1, model_year_id |-> 1, price |-> 50000],
                        [reference_month_id |-> 2, model_year_id |-> 1, price |-> 45000]}]

\* CalcStore with 2024-03-01, in which Argo's first variant has a price.
MarchStore ==
    [CalcStore EXCEPT
        !.reference_months = @ \cup {[id |-> 3, month_date |-> 738946]},
        !.car_prices = @ \cup
            {[reference_month_id |-> 3, model_year_id |-> 1, price |-> 150]}]

MaxCalcCalls == 1
MaxCalcWrites == 1
CalcMonthsArgs == {1, 2, 3, 13}
CalcPrices == {75}

InitCalc == InitWith({CalcStore, JuneStore, MarchStore, YearStore})

ComputeWindowReport ==
    \E months \in CalcMonthsArgs, brand_id \in {None, Some(1)} :
        /\ calls < MaxCalcCalls
        /\ get_depreciation_analysis(months, brand_id)
        /\ UNCHANGED asked

IngestCalcMonth ==
    /\ writes < MaxCalcWrites
    /\ AppendMonth(Max(Dates))

IngestCalcPrice ==
    \E m \in {r.id : r \in store.reference_months},
       my \in {r.id : r \in store.model_years}, p \in CalcPrices :
        writes < MaxCalcWrites /\ AppendPrice(m, my, p)

NextCalc == ComputeWindowReport \/ IngestCalcMonth \/ IngestCalcPrice

SpecCalc == InitCalc /\ [][NextCalc]_vars

(***************************************************************************)
(* SpecRows: the rows of the report on a store with two brands of three    *)
(* models each, variants whose model year is the first year of a bucket,   *)
(* and two models whose rates differ only past the second decimal.         *)
(***************************************************************************)
Kia == <<75, 105, 97>>
Rio == <<82, 105, 111>>
Polo == <<80, 111, 108, 111>>
Fox == <<70, 111, 120>>
Flex2020 == <<50, 48, 50, 48, 32, 70>>      \* "2020 F"
Gas2015 == <<50, 48, 49, 53, 32, 71>>       \* "2015 G"
Diesel2010 == <<50, 48, 49, 48, 32, 68>>    \* "2010 D"
Gas2005 == <<50, 48, 48, 53, 32, 71>>       \* "2005 G"

\* April and May 2024.  Mobi falls from 50000 to 45000 and Uno from 50001 to
\* 45001; the Fox, the 2019 Polo and the Rio, the one model of Kia, have no
\* price in May.
RowsStore ==
    [EmptyStore EXCEPT
        !.brands = @ \cup {[id |-> 3, brand_name |-> Kia]},
        !.car_models = @ \cup
            {[id |-> 5, brand_id |-> 2, model_name |-> Polo],
             [id |-> 6, brand_id |-> 2, model_name |-> Fox],
             [id |-> 7, brand_id |-> 3, model_name |-> Rio]},
        !.model_years = @ \cup
            {[id |-> 5, car_model_id |-> 5, year_description |-> Flex2020],
             [id |-> 6, car_model_id |-> 6, year_description |-> Gas2015],
             [id |-> 9, car_model_id |-> 1, year_description |-> Diesel2010],
             [id |-> 10, car_model_id |-> 1, year_description |-> Gas2005],
             [id |-> 11, car_model_id |-> 5, year_description |-> Gas2019],
             [id |-> 12, car_model_id |-> 7, year_description |-> Flex2024]},
        !.reference_months = {[id |-> 1, month_date |-> 738977],
                              [id |-> 2, month_date |-> 739007]},
        !.car_prices = {[reference_month_id |-> 1, model_year_id |-> 1, price |-> 75],
                        [reference_month_id |-> 2, model_year_id |-> 1, price |-> 71],
                        [reference_month_id |-> 1, model_year_id |-> 9, price |-> 75],
                        [reference_month_id |-> 2, model_year_id |-> 9, price |-> 70],
                        [reference_month_id |-> 1, model_year_id |-> 2, price |-> 50000],
                        [reference_month_id |-> 2, model_year_id |-> 2, price |-> 45000],
                        [reference_month_id |-> 1, model_year_id |-> 10, price |-> 75],
                        [reference_month_id |-> 2, model_year_id |-> 10, price |-> 72],
                        [reference_month_id |-> 1, model_year_id |-> 3, price |-> 50001],
                        [reference_month_id |-> 2, model_year_id |-> 3, price |-> 45001],
                        [reference_month_id |-> 1, model_year_id |-> 4, price |-> 75],
                        [reference_month_id |-> 2, model_year_id |-> 4, price |-> 73],
                        [reference_month_id |-> 1, model_year_id |-> 5, price |-> 75],
                        [reference_month_id |-> 2, model_year_id |-> 5, price |-> 72],
                        [reference_month_id |-> 1, model_year_id |-> 6, price |-> 75],
                        [reference_month_id |-> 1, model_year_id |-> 11, price |-> 75],
                        [reference_month_id |-> 1, model_year_id |-> 12, price |-> 75]}]

MaxRowsCalls == 2
MaxRowsWrites == 1
RowsMonthsArgs == {1}
RowsBrandArgs == {None, Some(1), Some(2), Some(3), Some(4)}
RowsPrices == {60}

InitRows == InitWith({RowsStore})

ComputeRowsReport ==
    \E months \in RowsMonthsArgs, brand_id \in RowsBrandArgs :
        /\ calls < MaxRowsCalls
        /\ get_depreciation_analysis(months, brand_id)
        /\ UNCHANGED asked

IngestRowsPrice ==
    \E m \in {r.id : r \in store.reference_months},
       my \in {r.id : r \in store.model_years}, p \in RowsPrices :
        writes < MaxRowsWrites /\ AppendPrice(m, my, p)

NextRows == ComputeRowsReport \/ IngestRowsPrice

SpecRows == InitRows /\ [][NextRows]_vars

(***************************************************************************)
(* SpecConc: worker threads serve requests side by side.  Requests in rank *)
(* order, one at a time, fill the cache; once it is full or one link short *)
(* of full the threads ask for the next keys, two of them possibly for the *)
(* same one, while the warm-up and the scraper go on.                      *)
(***************************************************************************)
ConcMonthsArgs == {6}

InitConc == InitWith({BaseStore})

WarmUp ==
    \E months \in 1..MaxLruMonths, brand_id \in {None, Some(1)} :
        /\ \A t \in Threads : inflight[t].pc = "idle"
        /\ asked < MaxConcWarm
        /\ Rank(months, brand_id) = asked + 1
        /\ asked' = asked + 1
        /\ get_depreciation_analysis(months, brand_id)

Enter ==
    \E t \in Threads, months \in ConcMonthsArgs, brand_id \in {None, Some(1)} :
        /\ calls - asked < MaxConcCalls
        /\ asked >= MaxConcWarm - 1
        /\ handler_enter(t, months, brand_id)
        /\ UNCHANGED <<asked, authvars>>

Lookup == \E t \in Threads : wrapper_lookup(t) /\ UNCHANGED <<asked, authvars>>

Calculate == \E t \in Threads : wrapper_call(t) /\ UNCHANGED <<asked, authvars>>

Return == \E t \in Threads : wrapper_return(t) /\ UNCHANGED <<asked, authvars>>

IngestConcMonth ==
    /\ writes < MaxConcWrites
    /\ AppendMonth(Max(Dates))

NextConc == WarmUp \/ Enter \/ Lookup \/ Calculate \/ Return \/ IngestConcMonth

SpecConc == InitConc /\ [][NextConc]_vars

(***************************************************************************)
(* SpecHit: worker threads ask for two keys from an empty cache on, so that *)
(* one of them finds its key cached while the other is inside the function *)
(* body for the other key.                                                 *)
(***************************************************************************)
MaxHitCalls == 3
HitMonthsArgs == {1, 2}

InitHit == InitWith({BaseStore})

EnterCold ==
    \E t \in Threads, months \in HitMonthsArgs :
        /\ calls < MaxHitCalls
        /\ handler_enter(t, months, None)
        /\ UNCHANGED <<asked, authvars>>

NextHit == EnterCold \/ Lookup \/ Calculate \/ Return

SpecHit == InitHit /\ [][NextHit]_vars

(***************************************************************************)
(* SpecFault: requests for four keys, any of which may find the store      *)
(* failing under the calculator when its key is not cached.                *)
(***************************************************************************)
MaxFaultCalls == 3
FaultMonthsArgs == {1, 2}

InitFault == InitWith({BaseStore})

ComputeOrHit ==
    \E months \in FaultMonthsArgs, brand_id \in {None, Some(1)} :
        /\ calls < MaxFaultCalls
        /\ get_depreciation_analysis(months, brand_id)
        /\ UNCHANGED asked

StoreReadFails ==
    \E months \in FaultMonthsArgs, brand_id \in {None, Some(1)} :
        /\ calls < MaxFaultCalls
        /\ get_depreciation_analysis_db_error(months, brand_id)
        /\ UNCHANGED asked

NextFault == ComputeOrHit \/ StoreReadFails

SpecFault == InitFault /\ [][NextFault]_vars

(***************************************************************************)
(* SpecAuth: requests with and without credentials to the guarded          *)
(* depreciation endpoint, under each setting of the allowed keys and the   *)
(* environment, from browsers whose session is absent, fresh or expired.   *)
(***************************************************************************)
ApiKeys == {None, Some(ShortKey), Some(WrongKey), Some(ValidKey)}

InitAuth ==
    /\ store = BaseStore
    /\ lru = <<>>
    /\ now = 0
    /\ calls = 0
    /\ resp = [op |-> "none", status |-> 0]
    /\ calc_runs = 0
    /\ uses = <<>>
    /\ evictions = 0
    /\ writes = 0
    /\ asked = 0
    /\ served = <<>>
    /\ inflight = [t \in Threads |-> Idle]
    /\ config \in [VALID_API_KEYS : {{}, {ValidKey}}, is_production : BOOLEAN]
    /\ session = NoSession
    /\ request = NoRequest

GuardedRequest ==
    \E api_key \in ApiKeys, months \in {0, 1} :
        /\ request.n < MaxAuthRequests
        /\ require_api_key("GET", FALSE, api_key,
                           get_depreciation_analysis_view(months, None))
        /\ UNCHANGED asked

VisitIndex == index /\ UNCHANGED asked

DayPasses ==
    /\ session.today < MaxAuthDays
    /\ session' = [session EXCEPT !.today = @ + 1]
    /\ UNCHANGED <<store, lru, now, calls, resp, calc_runs, uses, evictions, writes,
                   asked, served, inflight, config, request>>

NextAuth == GuardedRequest \/ VisitIndex \/ DayPasses

SpecAuth == InitAuth /\ [][NextAuth]_vars

(***************************************************************************)
(* The claims.                                                             *)
(***************************************************************************)
IsReport(r) == r.op = "depreciation_analysis" /\ r.status = 200
IsIndex(r) == r.op = "vehicle_options"
Cutoff(db) == Max({m.month_date : m \in db.reference_months})
Entries(cache) == {cache[i] : i \in 1..Len(cache)}
Rows(q) == {q[i] : i \in 1..Len(q)}

\* The cache entry is the one for (cutoff, months, brand or "all").
EntryIsFor(e, cutoff, months, brand_id) ==
    e.key[3] = cutoff /\ e.key[2] = cutoff - 30 * months /\ e.key[4] = brand_id

\* C1: when the key (resolved cutoff, windowMonths, brand or "all") of a
\* request is already cached, the request returns exactly the report stored
\* for that key, the calculator does not run and the clock is not read.
C1_HitReturnsStoredReport ==
    [][(/\ calls' = calls + 1
        /\ resp'.status = 200
        /\ \E e \in Entries(lru) :
              EntryIsFor(e, Cutoff(store), resp'.months, resp'.brand_id))
       => /\ \E e \in Entries(lru) :
                /\ EntryIsFor(e, Cutoff(store), resp'.months, resp'.brand_id)
                /\ resp'.body = e.result
          /\ calc_runs' = calc_runs
          /\ now' = now]_vars

C1_Witness == IsReport(resp) /\ resp.hit /\ Len(lru) >= 3 /\ lru[Len(lru)].key # lru[1].key

\* C2: the cache never holds more than 10 distinct keys.
C2_AtMostTenKeys ==
    Cardinality({e.key : e \in Entries(lru)}) <= 10 /\ Len(lru) <= 10

C2_Witness == Cardinality({e.key : e \in Entries(lru)}) = 10 /\ evictions > 0

\* C3: a miss on a full cache evicts exactly one entry, the one whose last
\* use (insertion or hit) is the oldest; every other entry stays, with its
\* report unchanged.
C3_EvictsLeastRecentlyUsed ==
    [][(calc_runs' = calc_runs + 1 /\ Len(lru) = 10)
       => /\ {e.key : e \in Entries(lru)} \ {e.key : e \in Entries(lru')} = {uses[1]}
          /\ \A e \in Entries(lru) : e.key # uses[1] => e \in Entries(lru')
          /\ Cardinality(Entries(lru')) = 10
          /\ \E e \in Entries(lru') : e.key = Get(resp'.key) /\ e.result = resp'.body]_vars

\* One eviction has happened and the report computed first is still cached:
\* a hit had made it more recent than the entry that went.
C3_Witness ==
    evictions = 1 /\ Len(lru) = 10 /\ \E e \in Entries(lru) : e.result.calculated_at = 0

\* C4: a successful request has resolved the latest month of the store as it
\* is at the request, the report it returns ends at that month, and when no
\* cached report ends at that month the request runs the calculator and
\* returns none of the cached reports.
C4_ReportEndsAtResolvedCutoff ==
    [][(calls' = calls + 1 /\ resp'.status = 200)
       => /\ resp'.resolved
          /\ resp'.latest = Some(Cutoff(store))
          /\ resp'.body.analysis_period.end_date = IsoFormat(Cutoff(store))
          /\ (\A e \in Entries(lru) :
                 e.result.analysis_period.end_date # IsoFormat(Cutoff(store)))
             => /\ calc_runs' = calc_runs + 1
                /\ \A e \in Entries(lru) : resp'.body # e.result]_vars

\* The cache holds reports for the same window length and brand at two cutoffs.
C4_Witness ==
    /\ IsReport(resp) /\ ~resp.hit
    /\ \E e, f \in Entries(lru) :
          /\ e.key[3] < f.key[3]
          /\ e.key[3] - e.key[2] = f.key[3] - f.key[2]
          /\ e.key[4] = f.key[4]
          /\ f.result = resp.body

SameRows(a, b) ==
    /\ a.analysis_period = b.analysis_period
    /\ Len(a.brands) = Len(b.brands) /\ Rows(a.brands) = Rows(b.brands)
    /\ Len(a.year_groups) = Len(b.year_groups) /\ Rows(a.year_groups) = Rows(b.year_groups)
    /\ ("models" \in DOMAIN a) = ("models" \in DOMAIN b)
    /\ "models" \in DOMAIN a
          => Len(a.models) = Len(b.models) /\ Rows(a.models) = Rows(b.models)

C6_ValidationFailure ==
    [][calls' = calls + 1
       => LET bad == \/ resp'.months < 1
                     \/ resp'.months > 60
                     \/ (~IsNone(resp'.brand_id) /\ Get(resp'.brand_id) <= 0)
          IN  /\ (resp'.status = 400) = bad
              /\ bad => /\ ~resp'.resolved
                        /\ lru' = lru
                        /\ calc_runs' = calc_runs]_vars

C6_Witness ==
    /\ resp.op = "depreciation_analysis" /\ resp.status = 400
    /\ resp.months = 61 /\ store.reference_months = {}

\* C7: with no reference month in the store, a request with valid arguments
\* returns the not-found failure, the calculator does not run and the cache
\* gains no entry.
C7_EmptyStoreNotFound ==
    [][(/\ calls' = calls + 1
        /\ store.reference_months = {}
        /\ resp'.months >= 1 /\ resp'.months <= 60
        /\ (IsNone(resp'.brand_id) \/ Get(resp'.brand_id) > 0))
       => /\ resp'.status = 404
          /\ calc_runs' = calc_runs
          /\ lru' = lru]_vars

C7_Witness ==
    /\ resp.op = "depreciation_analysis" /\ resp.status = 404
    /\ resp.months = 60 /\ resp.brand_id = Some(1)

\* C8: with no reference month in the store, the index of every brand is a
\* success whose five parts are all empty.
C8_EmptyStoreEmptyIndex ==
    [][(IsIndex(resp') /\ store' = store /\ store.reference_months = {})
       => /\ resp'.status = 200
          /\ resp'.body.models = <<>>
          /\ resp'.body.year_descriptions = <<>>
          /\ DOMAIN resp'.body.model_to_years = {}
          /\ DOMAIN resp'.body.year_to_models = {}
          /\ DOMAIN resp'.body.model_year_lookup = {}]_vars

C8_Witness == IsIndex(resp) /\ IsNone(resp.latest) /\ store.reference_months = {}

\* C9: both handlers leave the five tables of the store as they were.
C9_HandlersLeaveStore ==
    [][(calls' # calls \/ resp' # resp) => store' = store]_vars

C9_Witness ==
    /\ calls > 0 /\ calc_runs > 0
    /\ IsIndex(resp) /\ resp.body.models # <<>>

StrictlyDescending(q) == \A i \in 1..(Len(q) - 1) : StrLess(q[i + 1], q[i])
StrictlyAscending(q) == \A i \in 1..(Len(q) - 1) : q[i] < q[i + 1]

\* C10: in every index, each year_to_models list is strictly ascending by
\* id, and year_descriptions and each model_to_years list are strictly
\* descending by string comparison; none holds a duplicate.
C10_IndexListsSorted ==
    IsIndex(resp)
    => /\ StrictlyDescending(resp.body.year_descriptions)
       /\ \A k \in DOMAIN resp.body.model_to_years :
             StrictlyDescending(resp.body.model_to_years[k])
       /\ \A d \in DOMAIN resp.body.year_to_models :
             StrictlyAscending(resp.body.year_to_models[d])

C10_Witness ==
    /\ IsIndex(resp)
    /\ Len(resp.body.year_descriptions) >= 2
    /\ \E k \in DOMAIN resp.body.model_to_years : Len(resp.body.model_to_years[k]) >= 2
    /\ \E d \in DOMAIN resp.body.year_to_models : Len(resp.body.year_to_models[d]) >= 2

\* The variants of the brand that have a price in a month dated at the cutoff.
AvailableVariants(db, brand_id) ==
    {v \in db.model_years :
        /\ \E cm \in db.car_models : cm.id = v.car_model_id /\ cm.brand_id = brand_id
        /\ \E p \in db.car_prices, m \in db.reference_months :
              /\ p.model_year_id = v.id
              /\ p.reference_month_id = m.id
              /\ m.month_date = Cutoff(db)}

\* C11: the index of a brand lists exactly the models and the descriptions of
\* the brand's variants that have a price at the cutoff, and its lookup holds
\* only ids of such variants, one entry for each of their (model,
\* description) pairs; a variant priced only in earlier months is absent.
C11_IndexIsAvailabilityAtCutoff ==
    [][(IsIndex(resp') /\ store' = store /\ store.reference_months # {})
       => LET A == AvailableVariants(store, resp'.brand_id)
              body == resp'.body
          IN  /\ {body.models[i].id : i \in 1..Len(body.models)} = {v.car_model_id : v \in A}
              /\ Rows(body.year_descriptions) = {v.year_description : v \in A}
              /\ DOMAIN body.model_year_lookup = {Str(v.car_model_id) : v \in A}
              /\ \A k \in DOMAIN body.model_year_lookup :
                    /\ DOMAIN body.model_year_lookup[k] =
                          {v.year_description : v \in {w \in A : Str(w.car_model_id) = k}}
                    /\ \A d \in DOMAIN body.model_year_lookup[k] :
                          \E v \in A : /\ v.id = body.model_year_lookup[k][d]
                                       /\ Str(v.car_model_id) = k
                                       /\ v.year_description = d]_vars

\* An index that lists one model of the brand while another model of the
\* brand has its only price in an earlier month.
C11_Witness ==
    /\ IsIndex(resp) /\ resp.body.models # <<>>
    /\ AvailableVariants(store, resp.brand_id) # {}
    /\ Rows(resp.body.year_descriptions) =
          {v.year_description : v \in AvailableVariants(store, resp.brand_id)}
    /\ \E v \in store.model_years :
          /\ \E cm \in store.car_models : cm.id = v.car_model_id /\ cm.brand_id = resp.brand_id
          /\ \E p \in store.car_prices : p.model_year_id = v.id
          /\ v \notin AvailableVariants(store, resp.brand_id)
          /\ \A i \in 1..Len(resp.body.models) : resp.body.models[i].id # v.car_model_id

\* The variants of the model (as its str key) with the description that have
\* a price at the cutoff.
VariantsOfPair(db, brand_id, k, d) ==
    {v \in AvailableVariants(db, brand_id) :
        Str(v.car_model_id) = k /\ v.year_description = d}

\* C12 as stated: every entry of model_year_lookup holds the id of the one and
\* only variant of that model with that description priced at the cutoff.
C12_LookupIsTheOnlyVariant ==
    [][(IsIndex(resp') /\ store' = store /\ store.reference_months # {})
       => \A k \in DOMAIN resp'.body.model_year_lookup :
             \A d \in DOMAIN resp'.body.model_year_lookup[k] :
                {v.id : v \in VariantsOfPair(store, resp'.brand_id, k, d)}
                    = {resp'.body.model_year_lookup[k][d]}]_vars

\* An index built while two variants of one model with one description are
\* both priced at the cutoff: the lookup entry names one of the two.
C12_Witness ==
    /\ IsIndex(resp) /\ resp.status = 200 /\ ~IsNone(resp.latest)
    /\ \E k \in DOMAIN resp.body.model_year_lookup :
          \E d \in DOMAIN resp.body.model_year_lookup[k] :
             /\ Cardinality(VariantsOfPair(store, resp.brand_id, k, d)) = 2
             /\ resp.body.model_year_lookup[k][d]
                   = Max({v.id : v \in VariantsOfPair(store, resp.brand_id, k, d)})

(***************************************************************************)
(* Claims about the calculator: the window of a computed report is the     *)
(* start_date and end_date of its cache key.                               *)
(***************************************************************************)
Computes == calc_runs' = calc_runs + 1 /\ resp'.status = 200
WindowStart(r) == Get(r.key)[2]
WindowEnd(r) == Get(r.key)[3]
BrandArg(r) == Get(r.key)[4]

\* The dates inside [s, e] of the months in which the variant has a price.
PricedDates(db, v, s, e) ==
    {m.month_date : m \in {m \in db.reference_months :
        /\ s <= m.month_date /\ m.month_date <= e
        /\ \E p \in db.car_prices :
              p.reference_month_id = m.id /\ p.model_year_id = v.id}}

\* A variant qualifies when it has prices on two distinct dates of the window.
Qualifying(db, s, e) ==
    {v \in db.model_years : Cardinality(PricedDates(db, v, s, e)) >= 2}

BrandOf(db, v) ==
    (CHOOSE cm \in db.car_models : cm.id = v.car_model_id).brand_id

WithoutPricesOf(db, v) ==
    [db EXCEPT !.car_prices = {p \in @ : p.model_year_id # v.id}]

WithoutPrice(db, p) == [db EXCEPT !.car_prices = @ \ {p}]

RECURSIVE SampleSum(_)
SampleSum(rows) ==
    IF rows = <<>> THEN 0 ELSE rows[1].sample_size + SampleSum(Tail(rows))

\* C13: a variant without prices on two distinct dates of the window is in no
\* row: the report is one the calculator returns for the store without that
\* variant's prices, and the sample sizes count qualifying variants only.
C13_NonQualifyingContributesNothing ==
    [][Computes
       => LET s == WindowStart(resp')
              e == WindowEnd(resp')
              Q == Qualifying(store, s, e)
              body == resp'.body
          IN  /\ \A v \in store.model_years \ Q :
                    body \in calculate_body(WithoutPricesOf(store, v), now, s, e,
                                            BrandArg(resp'))
              /\ SampleSum(body.year_groups) = Cardinality(Q)
              /\ \A i \in 1..Len(body.brands) :
                    body.brands[i].sample_size =
                        Cardinality({v.car_model_id :
                            v \in {w \in Q : BrandOf(store, w) = body.brands[i].brand_id}})
              /\ "models" \in DOMAIN body
                    => SampleSum(body.models) =
                          Cardinality({v \in Q : BrandOf(store, v) = Get(BrandArg(resp'))})]_vars

\* A report with rows, computed while one priced variant has a single date in
\* the window and another has all its prices before the window.
C13_Witness ==
    /\ IsReport(resp) /\ ~resp.hit
    /\ resp.body.year_groups # <<>>
    /\ resp.body \in calculate_body(store, resp.body.calculated_at, WindowStart(resp),
                                    WindowEnd(resp), BrandArg(resp))
    /\ \E v, w \in store.model_years :
          /\ Cardinality(PricedDates(store, v, WindowStart(resp), WindowEnd(resp))) = 1
          /\ PricedDates(store, w, WindowStart(resp), WindowEnd(resp)) = {}
          /\ \E p \in store.car_prices : p.model_year_id = w.id

\* The brands with at least three distinct models that have a qualifying variant.
SampledBrands(db, s, e) ==
    {b.id : b \in {b \in db.brands :
        Cardinality({v.car_model_id :
            v \in {w \in Qualifying(db, s, e) : BrandOf(db, w) = b.id}}) >= 3}}

BrandIds(rows) == {rows[i].brand_id : i \in 1..Len(rows)}

\* C14: the brand rows are those of the brands with at least three distinct
\* models that have a qualifying variant; on the store less any one price
\* the brand query still returns its rows, which are again those.
C14_BrandRowsNeedThreeModels ==
    [][Computes
       => LET s == WindowStart(resp')
              e == WindowEnd(resp')
          IN  /\ BrandIds(resp'.body.brands) = SampledBrands(store, s, e)
              /\ \A p \in store.car_prices :
                    LET less == WithoutPrice(store, p)
                        results == _calculate_brand_depreciation(less, s, e)
                    IN  /\ results # {}
                        /\ \A rows \in results :
                              BrandIds(rows) = SampledBrands(less, s, e)]_vars

\* A report with the row of a brand of exactly three qualifying models, one
\* of which stops qualifying when one of its prices is taken away.
C14_Witness ==
    /\ IsReport(resp) /\ ~resp.hit
    /\ resp.body \in calculate_body(store, resp.body.calculated_at, WindowStart(resp),
                                    WindowEnd(resp), BrandArg(resp))
    /\ \E i \in 1..Len(resp.body.brands) : resp.body.brands[i].sample_size = 3
    /\ \E p \in store.car_prices :
          SampledBrands(WithoutPrice(store, p), WindowStart(resp), WindowEnd(resp)) = {}

\* Newest bucket first: the rank of a bucket label.
BucketRank(label) ==
    IF label = <<50, 48, 50, 48, 45, 50, 48, 50, 52>> THEN 5         \* '2020-2024'
    ELSE IF label = <<50, 48, 49, 53, 45, 50, 48, 49, 57>> THEN 4    \* '2015-2019'
    ELSE IF label = <<50, 48, 49, 48, 45, 50, 48, 49, 52>> THEN 3    \* '2010-2014'
    ELSE IF label = <<50, 48, 48, 53, 45, 50, 48, 48, 57>> THEN 2    \* '2005-2009'
    ELSE 1                                                           \* '<2005'

\* C15 as stated: the age-bucket rows come newest bucket first, '<2005' after
\* every other bucket.
C15_BucketsNewestFirst ==
    [][Computes
       => \A i \in 1..(Len(resp'.body.year_groups) - 1) :
             BucketRank(resp'.body.year_groups[i].year_range)
                 > BucketRank(resp'.body.year_groups[i + 1].year_range)]_vars

\* A computed report whose first age-bucket row is '<2005', ahead of a newer
\* bucket.
C15_Witness ==
    /\ IsReport(resp) /\ ~resp.hit
    /\ Len(resp.body.year_groups) >= 2
    /\ BucketRank(resp.body.year_groups[1].year_range) = 1
    /\ BucketRank(resp.body.year_groups[2].year_range) = 5

(***************************************************************************)
(* Claims about requests served side by side.                              *)
(***************************************************************************)
\* C16: under any interleaving of the threads' steps the cache holds at most
\* maxsize keys, one link per key; a link that was in the cache keeps its
\* result, and a link that joins holds a report the calculator returns for
\* the window and brand of its key; a key leaves only when the cache is
\* full and a new key joins, and the key that leaves is the least recently
\* used one.
C16_CacheStaysCoherent ==
    [][/\ Len(lru') <= maxsize
       /\ Cardinality(lru_keys(lru')) = Len(lru')
       /\ \A i \in 1..Len(lru') :
             LET link == lru'[i]
             IN  IF link.key \in lru_keys(lru)
                 THEN link.result = lru_result(lru, link.key)
                 ELSE link.result \in calculate_body(store', link.result.calculated_at,
                                                     link.key[2], link.key[3], link.key[4])
       /\ LET gone == lru_keys(lru) \ lru_keys(lru')
          IN  gone # {} => /\ Len(lru) = maxsize
                           /\ gone = {lru[1].key}
                           /\ lru_keys(lru') \ lru_keys(lru) # {}]_vars

\* A request has stored its report in the full cache, evicting a key, while
\* another thread holds a report for another key that it computed earlier
\* and has not stored yet.
C16_Witness ==
    /\ Len(lru) = maxsize
    /\ evictions >= 1
    /\ IsReport(resp) /\ ~resp.hit
    /\ Get(resp.key) \in lru_keys(lru)
    /\ \E u \in Threads :
          /\ inflight[u].pc = "insert"
          /\ inflight[u].key # resp.key
          /\ Get(inflight[u].key) \notin lru_keys(lru)
          /\ Get(inflight[u].result).calculated_at < resp.body.calculated_at

NoCredentials(r) ==
    /\ ~r.authenticated
    /\ IsNone(r.api_key) \/ Get(r.api_key) \notin config.VALID_API_KEYS

\* C18 as stated: under every setting of the allowed keys and the
\* environment, a guarded request with neither an authenticated session nor
\* a valid API key does not reach the view and is answered 401.
C18_NoCredentialsNoAccess ==
    [][(request'.n = request.n + 1 /\ NoCredentials(request'))
          => (calls' = calls /\ resp'.status = 401)]_vars

\* With no key configured outside production, a request without a session
\* and without a key has been served by the view.
C18_Witness ==
    /\ request.n >= 1
    /\ NoCredentials(request)
    /\ IsNone(request.api_key)
    /\ config.VALID_API_KEYS = {} /\ ~config.is_production
    /\ IsReport(resp)
    /\ calls = request.n

\* The store without the prices of months dated outside [s, e].
OnlyInWindow(db, s, e) ==
    [db EXCEPT !.car_prices =
        {p \in @ : \E m \in db.reference_months :
            m.id = p.reference_month_id /\ s <= m.month_date /\ m.month_date <= e}]

\* The store with the price of a variant in a month set to a value.
WithPrice(db, reference_month_id, model_year_id, price) ==
    [db EXCEPT !.car_prices =
        {p \in @ : ~(p.reference_month_id = reference_month_id
                     /\ p.model_year_id = model_year_id)}
        \cup {[reference_month_id |-> reference_month_id,
               model_year_id |-> model_year_id, price |-> price]}]

PriceAt(db, v, d) ==
    (CHOOSE p \in db.car_prices :
        /\ p.model_year_id = v.id
        /\ \E m \in db.reference_months :
              m.id = p.reference_month_id /\ m.month_date = d).price

\* The annualized rate of a qualifying variant, from the prices at its
\* earliest and latest dates inside [s, e].
ExpectedRate(db, v, s, e) ==
    LET firstDate == Min(PricedDates(db, v, s, e))
        lastDate == Max(PricedDates(db, v, s, e))
        firstPrice == PriceAt(db, v, firstDate)
        lastPrice == PriceAt(db, v, lastDate)
    IN  Rat((lastPrice - firstPrice) * 36525, firstPrice * (lastDate - firstDate))

\* C19: the window of a computed report runs from 30 days times the months
\* before the cutoff to the cutoff, both ends included; the report is one the
\* calculator returns for the store without the prices outside the window
\* and for the store with any price outside the window added or changed;
\* and a bucket of one variant has the rate from that variant's prices at
\* its earliest and latest dates inside the window.
C19_OnlyWindowPricesCount ==
    [][Computes
       => LET s == WindowStart(resp')
              e == WindowEnd(resp')
              body == resp'.body
          IN  /\ e = Cutoff(store)
              /\ s = e - 30 * resp'.months
              /\ body \in calculate_body(OnlyInWindow(store, s, e), now, s, e,
                                         BrandArg(resp'))
              /\ \A m \in store.reference_months, v \in store.model_years :
                    (m.month_date < s \/ m.month_date > e)
                        => body \in calculate_body(WithPrice(store, m.id, v.id, 60),
                                                   now, s, e, BrandArg(resp'))
              /\ \A i \in 1..Len(body.year_groups) :
                    body.year_groups[i].sample_size = 1
                        => \E v \in Qualifying(store, s, e) :
                              /\ year_group(v.year_description)
                                     = body.year_groups[i].year_range
                              /\ body.year_groups[i].avg_depreciation_rate
                                     = RoundTo(ExpectedRate(store, v, s, e), 100)]_vars

\* A computed report with rows for a window that starts on the date of a
\* month: a qualifying variant has a price on that first day, and a price in
\* an earlier month that differs from it.
C19_Witness ==
    /\ IsReport(resp) /\ ~resp.hit
    /\ resp.body \in calculate_body(store, resp.body.calculated_at, WindowStart(resp),
                                    WindowEnd(resp), BrandArg(resp))
    /\ Len(resp.body.year_groups) >= 1
    /\ \E v \in Qualifying(store, WindowStart(resp), WindowEnd(resp)),
          m \in store.reference_months :
          /\ WindowStart(resp) \in PricedDates(store, v, WindowStart(resp), WindowEnd(resp))
          /\ m.month_date < WindowStart(resp)
          /\ \E p \in store.car_prices :
                /\ p.model_year_id = v.id /\ p.reference_month_id = m.id
                /\ p.price # PriceAt(store, v, WindowStart(resp))

\* The mean of the annualized rates of a non-empty set of qualifying variants.
RECURSIVE ExpectedSum(_, _, _, _)
ExpectedSum(V, db, s, e) ==
    IF V = {} THEN <<0, 1>>
    ELSE LET v == CHOOSE x \in V : TRUE
         IN  RatAdd(ExpectedRate(db, v, s, e), ExpectedSum(V \ {v}, db, s, e))

ExpectedMean(V, db, s, e) ==
    LET sum == ExpectedSum(V, db, s, e) IN Rat(sum[1], sum[2] * Cardinality(V))

\* A row shows the mean of its variants to two places, and 100 plus the mean
\* to one place.
ShowsMean(row, V, db, s, e) ==
    /\ V # {}
    /\ row.avg_depreciation_rate = RoundTo(ExpectedMean(V, db, s, e), 100)
    /\ row.value_retention = RoundTo(RatAdd(<<100, 1>>, ExpectedMean(V, db, s, e)), 10)

ModelOf(db, v) == CHOOSE cm \in db.car_models : cm.id = v.car_model_id

\* Every row of the report shows the mean, over the qualifying variants of
\* its bucket, brand or model, of ((last - first) / first) * 100 *
\* (365.25 / days between the first and the last date).
RowsShowVariantMeans(db, s, e, body) ==
    LET Q == Qualifying(db, s, e)
    IN  /\ \A i \in 1..Len(body.year_groups) :
              ShowsMean(body.year_groups[i],
                        {v \in Q : year_group(v.year_description)
                                       = body.year_groups[i].year_range}, db, s, e)
        /\ \A i \in 1..Len(body.brands) :
              ShowsMean(body.brands[i],
                        {v \in Q : BrandOf(db, v) = body.brands[i].brand_id}, db, s, e)
        /\ "models" \in DOMAIN body
              => \A i \in 1..Len(body.models) :
                    ShowsMean(body.models[i],
                              {v \in Q : v.car_model_id = body.models[i].model_id},
                              db, s, e)

\* The variants of a bucket row when it is a single one priced 50000 and,
\* 365 days later, 45000.
ExampleRow(db, s, e, row) ==
    LET V == {v \in Qualifying(db, s, e) :
                 year_group(v.year_description) = row.year_range}
    IN  /\ Cardinality(V) = 1
        /\ \A v \in V :
              /\ PriceAt(db, v, Min(PricedDates(db, v, s, e))) = 50000
              /\ PriceAt(db, v, Max(PricedDates(db, v, s, e))) = 45000
              /\ Max(PricedDates(db, v, s, e)) - Min(PricedDates(db, v, s, e)) = 365

\* C20 as stated: the rows show the variant means, and 50000 then 45000
\* 365 days apart show as -9.99.
C20_RateFormulaAndExample ==
    [][Computes
       => LET s == WindowStart(resp')
              e == WindowEnd(resp')
              body == resp'.body
          IN  /\ RowsShowVariantMeans(store, s, e, body)
              /\ \A i \in 1..Len(body.year_groups) :
                    ExampleRow(store, s, e, body.year_groups[i])
                        => body.year_groups[i].avg_depreciation_rate = -999]_vars

\* C20, amended: the rows show the variant means (a brand row the mean over
\* the brand's qualifying variants, not over per-model means), and 50000
\* then 45000 365 days apart show as -10.01, with 90.0 retained.
C20_RateFormula ==
    [][Computes
       => LET s == WindowStart(resp')
              e == WindowEnd(resp')
              body == resp'.body
          IN  /\ RowsShowVariantMeans(store, s, e, body)
              /\ \A i \in 1..Len(body.year_groups) :
                    ExampleRow(store, s, e, body.year_groups[i])
                        => /\ body.year_groups[i].avg_depreciation_rate = -1001
                           /\ body.year_groups[i].value_retention = 900]_vars

\* A computed report with the row of a single variant priced 50000 and, 365
\* days later, 45000.
C20_Witness ==
    /\ IsReport(resp) /\ ~resp.hit
    /\ resp.body \in calculate_body(store, resp.body.calculated_at, WindowStart(resp),
                                    WindowEnd(resp), BrandArg(resp))
    /\ \E i \in 1..Len(resp.body.year_groups) :
          ExampleRow(store, WindowStart(resp), WindowEnd(resp), resp.body.year_groups[i])

\* The qualifying variants of a brand, of a model and of a bucket.
QualifyingOfBrand(db, s, e, brand_id) ==
    {v \in Qualifying(db, s, e) : BrandOf(db, v) = brand_id}
QualifyingOfModel(db, s, e, model_id) ==
    {v \in Qualifying(db, s, e) : v.car_model_id = model_id}
QualifyingOfBucket(db, s, e, year_range) ==
    {v \in Qualifying(db, s, e) : year_group(v.year_description) = year_range}

\* C21: in a computed report the sample size of a brand row is the number of
\* distinct models of the brand that have a qualifying variant, and the
\* sample size of a bucket row and of a model row is the number of distinct
\* qualifying variants of the bucket or the model.
C21_SampleSizesCountModelsAndVariants ==
    [][Computes
       => LET s == WindowStart(resp')
              e == WindowEnd(resp')
              body == resp'.body
          IN  /\ \A i \in 1..Len(body.brands) :
                    body.brands[i].sample_size =
                        Cardinality({v.car_model_id :
                            v \in QualifyingOfBrand(store, s, e, body.brands[i].brand_id)})
              /\ \A i \in 1..Len(body.year_groups) :
                    body.year_groups[i].sample_size =
                        Cardinality(QualifyingOfBucket(store, s, e,
                                                       body.year_groups[i].year_range))
              /\ "models" \in DOMAIN body
                    => \A i \in 1..Len(body.models) :
                          body.models[i].sample_size =
                              Cardinality(QualifyingOfModel(store, s, e,
                                                            body.models[i].model_id))]_vars

\* A report whose brand row counts three models while the brand has five
\* qualifying variants, three of them of one model row.
C21_Witness ==
    /\ IsReport(resp)
    /\ "models" \in DOMAIN resp.body
    /\ \E i \in 1..Len(resp.body.brands) :
          /\ resp.body.brands[i].sample_size = 3
          /\ Cardinality(QualifyingOfBrand(store, WindowStart(resp), WindowEnd(resp),
                                           resp.body.brands[i].brand_id)) = 5
    /\ \E i \in 1..Len(resp.body.models) :
          /\ resp.body.models[i].sample_size = 3
          /\ Cardinality(QualifyingOfModel(store, WindowStart(resp), WindowEnd(resp),
                                           resp.body.models[i].model_id)) = 3
    /\ \E i \in 1..Len(resp.body.year_groups) : resp.body.year_groups[i].sample_size = 1

\* The unrounded means of adjacent rows do not increase.
RawMeansDescend(rows, VariantsOf(_), db, s, e) ==
    \A i \in 1..(Len(rows) - 1) :
        ~RatLess(ExpectedMean(VariantsOf(rows[i]), db, s, e),
                 ExpectedMean(VariantsOf(rows[i + 1]), db, s, e))

\* C22: the brand rows and the model rows of a computed report are each in
\* non-increasing order of their unrounded average annual rate.
C22_RowsOrderedByRawAverage ==
    [][Computes
       => LET s == WindowStart(resp')
              e == WindowEnd(resp')
              body == resp'.body
              OfBrandRow(row) == QualifyingOfBrand(store, s, e, row.brand_id)
              OfModelRow(row) == QualifyingOfModel(store, s, e, row.model_id)
          IN  /\ RawMeansDescend(body.brands, OfBrandRow, store, s, e)
              /\ "models" \in DOMAIN body
                    => RawMeansDescend(body.models, OfModelRow, store, s, e)]_vars

\* A report with two brand rows and with two adjacent model rows that display
\* the same rate while their unrounded averages differ.
C22_Witness ==
    /\ IsReport(resp)
    /\ Len(resp.body.brands) = 2
    /\ "models" \in DOMAIN resp.body
    /\ \E i \in 1..(Len(resp.body.models) - 1) :
          LET s == WindowStart(resp)
              e == WindowEnd(resp)
              a == resp.body.models[i]
              b == resp.body.models[i + 1]
          IN  /\ a.avg_depreciation_rate = b.avg_depreciation_rate
              /\ RatLess(ExpectedMean(QualifyingOfModel(store, s, e, b.model_id), store, s, e),
                         ExpectedMean(QualifyingOfModel(store, s, e, a.model_id), store, s, e))

\* The integer a run of decimal digits denotes (0 for the empty run).
RECURSIVE DecimalValue(_)
DecimalValue(s) ==
    IF s = <<>> THEN 0 ELSE DecimalValue(SubSeq(s, 1, Len(s) - 1)) * 10 + (s[Len(s)] - 48)

\* The first four characters of a description when they are four digits.
YearPrefix(d) == SubSeq(d, 1, 4)
HasYearPrefix(d) == Len(d) >= 4 /\ \A i \in 1..4 : d[i] >= 48 /\ d[i] <= 57

\* The label of the bucket of model year y.
BucketLabel(y) ==
    IF y >= 2020 THEN <<50, 48, 50, 48, 45, 50, 48, 50, 52>>
    ELSE IF y >= 2015 THEN <<50, 48, 49, 53, 45, 50, 48, 49, 57>>
    ELSE IF y >= 2010 THEN <<50, 48, 49, 48, 45, 50, 48, 49, 52>>
    ELSE IF y >= 2005 THEN <<50, 48, 48, 53, 45, 50, 48, 48, 57>>
    ELSE <<60, 50, 48, 48, 53>>

\* The number of rows of the sequence labelled year_range.
RowsLabelled(rows, year_range) ==
    Cardinality({i \in 1..Len(rows) : rows[i].year_range = year_range})

\* C23: in a computed report every qualifying variant is counted in exactly
\* one bucket row, the one labelled by the thresholds 2020, 2015, 2010 and
\* 2005 from the integer value of the first four characters of its
\* description; each bucket row counts the qualifying variants with its
\* label, however few; and the sample sizes of the bucket rows sum to the
\* number of qualifying variants.
C23_EveryVariantInOneBucket ==
    [][Computes
       => LET s == WindowStart(resp')
              e == WindowEnd(resp')
              Q == Qualifying(store, s, e)
              rows == resp'.body.year_groups
              label(v) == BucketLabel(DecimalValue(YearPrefix(v.year_description)))
          IN  /\ \A v \in Q : HasYearPrefix(v.year_description)
                                 => RowsLabelled(rows, label(v)) = 1
              /\ \A i \in 1..Len(rows) :
                    /\ rows[i].sample_size >= 1
                    /\ (\A v \in Q : HasYearPrefix(v.year_description))
                          => rows[i].sample_size =
                                Cardinality({v \in Q : label(v) = rows[i].year_range})
              /\ SampleSum(rows) = Cardinality(Q)]_vars

\* A report with a row for each of the five buckets, four of them holding a
\* variant of the first year of the bucket, and a row of sample size 1.
C23_Witness ==
    /\ IsReport(resp)
    /\ Len(resp.body.year_groups) = 5
    /\ \A y \in {2020, 2015, 2010, 2005} :
          \E v \in Qualifying(store, WindowStart(resp), WindowEnd(resp)) :
              /\ DecimalValue(YearPrefix(v.year_description)) = y
              /\ RowsLabelled(resp.body.year_groups, BucketLabel(y)) = 1
    /\ \E i \in 1..5 : resp.body.year_groups[i].sample_size = 1
    /\ SampleSum(resp.body.year_groups) = 8

\* The models of a brand that have a qualifying variant.
QualifyingModels(db, s, e, brand_id) ==
    {v.car_model_id : v \in QualifyingOfBrand(db, s, e, brand_id)}

\* C24: a report has model rows if and only if the request named a brand; a
\* computed report then has one row for each model of the brand with a
\* qualifying variant and no others, and a request that names a brand without
\* such a model, or a brand the store does not have, is answered with a
\* report whose model rows are the empty list.
C24_ModelRowsIffBrandGiven ==
    [][calls' = calls + 1
       => /\ IsReport(resp')
          /\ "models" \in DOMAIN resp'.body <=> ~IsNone(BrandArg(resp'))
          /\ (Computes /\ ~IsNone(BrandArg(resp')))
                => LET M == QualifyingModels(store, WindowStart(resp'), WindowEnd(resp'),
                                             Get(BrandArg(resp')))
                       rows == resp'.body.models
                   IN  /\ {rows[i].model_id : i \in 1..Len(rows)} = M
                       /\ Len(rows) = Cardinality(M)]_vars

\* The report for a brand the store does not have, with no model rows, while
\* the cache holds the report for a brand whose only model has no qualifying
\* variant, with no model rows either.
C24_Witness ==
    /\ IsReport(resp)
    /\ ~IsNone(BrandArg(resp))
    /\ \A b \in store.brands : b.id # Get(BrandArg(resp))
    /\ resp.body.models = <<>>
    /\ \E c \in Entries(lru) :
          /\ ~IsNone(c.key[4])
          /\ \E cm \in store.car_models : cm.brand_id = Get(c.key[4])
          /\ QualifyingModels(store, c.key[2], c.key[3], Get(c.key[4])) = {}
          /\ c.result.models = <<>>

\* C29: the brand rows and the bucket rows of a computed report are those of
\* a report computed on the same store and window without a brand, whatever
\* brand the request names; the brand adds the model rows and nothing else.
C29_BrandArgumentOnlyAddsModelRows ==
    [][Computes
       => \E r \in calculate_body(store, now', WindowStart(resp'), WindowEnd(resp'), None) :
             /\ resp'.body.brands = r.brands
             /\ resp'.body.year_groups = r.year_groups
             /\ resp'.body.analysis_period = r.analysis_period
             /\ DOMAIN resp'.body \ {"models"} = DOMAIN r]_vars

\* A report for a named brand with model rows, a row of another brand, and
\* buckets that count variants of other brands.
C29_Witness ==
    /\ IsReport(resp)
    /\ ~IsNone(BrandArg(resp))
    /\ resp.body.models # <<>>
    /\ \E i \in 1..Len(resp.body.brands) :
          resp.body.brands[i].brand_id # Get(BrandArg(resp))
    /\ SampleSum(resp.body.year_groups)
          > Cardinality(QualifyingOfBrand(store, WindowStart(resp), WindowEnd(resp),
                                          Get(BrandArg(resp))))
    /\ SampleSum(resp.body.year_groups)
          = Cardinality(Qualifying(store, WindowStart(resp), WindowEnd(resp)))

\* The qualifying variants of a brand that the bucket rows count.
CountedInBuckets(rows, db, s, e, brand_id) ==
    {v \in QualifyingOfBrand(db, s, e, brand_id) :
        \E i \in 1..Len(rows) :
            /\ rows[i].year_range = year_group(v.year_description)
            /\ rows[i].sample_size >=
                  Cardinality({w \in QualifyingOfBrand(db, s, e, brand_id) :
                                  year_group(w.year_description) = rows[i].year_range})}

\* C30: for every brand row of a computed report, a report computed on the
\* same store and window for that brand has as many model rows as the brand
\* row's sample size, and the sample sizes of those model rows sum to the
\* number of qualifying variants of the brand that the bucket rows count;
\* when the report itself is for that brand, its own model rows are those.
C30_GranularitiesAgree ==
    [][Computes
       => LET s == WindowStart(resp')
              e == WindowEnd(resp')
              body == resp'.body
          IN  \A i \in 1..Len(body.brands) :
                  LET b == body.brands[i]
                      counted == CountedInBuckets(body.year_groups, store, s, e, b.brand_id)
                  IN  /\ \A models \in _calculate_model_depreciation(store, s, e, b.brand_id) :
                            /\ Len(models) = b.sample_size
                            /\ SampleSum(models) = Cardinality(counted)
                      /\ BrandArg(resp') = Some(b.brand_id)
                            => /\ Len(body.models) = b.sample_size
                               /\ SampleSum(body.models) = Cardinality(counted)
                      /\ counted = QualifyingOfBrand(store, s, e, b.brand_id)]_vars

\* A report for a brand with a brand row of sample size 3, three model rows
\* and five qualifying variants, next to the row of another brand.
C30_Witness ==
    /\ IsReport(resp)
    /\ Len(resp.body.brands) = 2
    /\ \E i \in 1..2 :
          /\ BrandArg(resp) = Some(resp.body.brands[i].brand_id)
          /\ resp.body.brands[i].sample_size = 3
          /\ Len(resp.body.models) = 3
          /\ SampleSum(resp.body.models) = 5
          /\ Cardinality(QualifyingOfBrand(store, WindowStart(resp), WindowEnd(resp),
                                           resp.body.brands[i].brand_id)) = 5

\* Thread t is at the lookup of a cached key while thread u is inside the
\* function body for another key.
HitBesideCompute(t, u) ==
    /\ inflight[t].pc = "lookup"
    /\ Get(inflight[t].key) \in lru_keys(lru)
    /\ inflight[u].pc = "compute"
    /\ inflight[u].key # inflight[t].key

\* Thread t ends its request with the cached report while thread u stays
\* inside the function body.
HitCompletes(t, u) ==
    /\ wrapper_lookup(t)
    /\ inflight'[t].pc = "idle"
    /\ resp'.status = 200 /\ resp'.hit
    /\ resp'.body = lru_result(lru, Get(inflight[t].key))
    /\ inflight'[u] = inflight[u]
    /\ calc_runs' = calc_runs

AsksSameKeyAgain ==
    /\ calls' = calls + 1
    /\ resp'.months = resp.months
    /\ resp'.brand_id = resp.brand_id
    /\ resp'.latest = resp.latest

\* C26: when a store read fails under the calculator for a key that is not
\* cached, the request ends with a failure after a single run of the
\* calculator, the cache is left as it was and has no entry for the key, and
\* a request for the same key after it runs the calculator again.
C26_FailedComputeLeavesCacheAlone ==
    [][/\ (calls' = calls + 1 /\ resp'.status = 500)
            => /\ calc_runs' = calc_runs + 1
               /\ lru' = lru
               /\ Get(resp'.key) \notin lru_keys(lru')
               /\ "error" \in DOMAIN resp'.body
       /\ (resp.status = 500 /\ AsksSameKeyAgain)
            => /\ calc_runs' = calc_runs + 1
               /\ ~resp'.hit]_vars

\* A request has failed under the calculator, which ran once more than the
\* clock was read, while the cache holds reports for other keys and none for
\* the key of the request.
C26_Witness ==
    /\ resp.status = 500
    /\ resp.body = [error |-> "Database error occurred"]
    /\ calc_runs = now + 1
    /\ Len(lru) = 2
    /\ Get(resp.key) \notin lru_keys(lru)

\* The brand, bucket and model rows of the report are those of a result the
\* calculator gives for the store db.
RowsAreThoseOf(body, db, s, e, brand_id) ==
    \E r \in calculate_body(db, 0, s, e, brand_id) :
        /\ body.brands = r.brands
        /\ body.year_groups = r.year_groups
        /\ "models" \in DOMAIN r <=> "models" \in DOMAIN body
        /\ "models" \in DOMAIN r => body.models = r.models

\* C27: every report a request returns, from the cache or freshly computed,
\* has the brand, bucket and model rows the calculator gives for the store as
\* it is when the report is returned, also after prices were appended for a
\* month at or before the cutoff.
C27_ReturnedReportMatchesStore ==
    [][(calls' = calls + 1 /\ IsReport(resp'))
       => RowsAreThoseOf(resp'.body, store', WindowStart(resp'), WindowEnd(resp'),
                         BrandArg(resp'))]_vars

\* After a price was appended for the latest month, the cache holds for the
\* current cutoff a report whose rows the calculator no longer gives, and a
\* request for its key is answered with it.
C27_Witness ==
    /\ writes = 1
    /\ \E c \in Entries(lru) :
          /\ c.key[3] = Cutoff(store)
          /\ ~RowsAreThoseOf(c.result, store, c.key[2], c.key[3], c.key[4])
          /\ ENABLED (/\ get_depreciation_analysis((c.key[3] - c.key[2]) \div 30, c.key[4])
                      /\ resp'.hit
                      /\ resp'.body = c.result)

\* The three readings of "model k (as its str key) has description d" in an
\* index.
InModelToYears(body, k, d) ==
    k \in DOMAIN body.model_to_years /\ d \in Rows(body.model_to_years[k])
InYearToModels(body, k, d) ==
    d \in DOMAIN body.year_to_models
        /\ \E m \in Rows(body.year_to_models[d]) : Str(m) = k
InLookup(body, k, d) ==
    k \in DOMAIN body.model_year_lookup /\ d \in DOMAIN body.model_year_lookup[k]

\* Every model key and every description that occurs anywhere in the index.
IndexKeys(body) ==
    DOMAIN body.model_to_years \cup DOMAIN body.model_year_lookup
        \cup {Str(body.models[i].id) : i \in 1..Len(body.models)}
        \cup {Str(m) : m \in UNION {Rows(body.year_to_models[d]) :
                                       d \in DOMAIN body.year_to_models}}
IndexDescriptions(body) ==
    Rows(body.year_descriptions) \cup DOMAIN body.year_to_models
        \cup UNION {Rows(body.model_to_years[k]) : k \in DOMAIN body.model_to_years}
        \cup UNION {DOMAIN body.model_year_lookup[k] : k \in DOMAIN body.model_year_lookup}

\* C28: in every index, description d is listed under model m in
\* model_to_years exactly when m is listed under d in year_to_models and
\* exactly when model_year_lookup has an entry for m and d;
\* year_descriptions is the union of the lists of model_to_years; and the ids
\* in models are the keys of model_to_years and of model_year_lookup.
C28_IndexPartsAgree ==
    (IsIndex(resp) /\ resp.status = 200)
        => LET body == resp.body
           IN  /\ \A k \in IndexKeys(body), d \in IndexDescriptions(body) :
                     /\ InModelToYears(body, k, d) <=> InYearToModels(body, k, d)
                     /\ InYearToModels(body, k, d) <=> InLookup(body, k, d)
               /\ Rows(body.year_descriptions) =
                     UNION {Rows(body.model_to_years[k]) : k \in DOMAIN body.model_to_years}
               /\ {Str(body.models[i].id) : i \in 1..Len(body.models)}
                     = DOMAIN body.model_to_years
               /\ DOMAIN body.model_to_years = DOMAIN body.model_year_lookup

\* An index with two models that share a description, one of them with a
\* second description, for a brand that has a third model without a price.
C28_Witness ==
    /\ IsIndex(resp) /\ resp.status = 200
    /\ Len(resp.body.models) = 2
    /\ \E d \in DOMAIN resp.body.year_to_models : Len(resp.body.year_to_models[d]) = 2
    /\ \E k \in DOMAIN resp.body.model_to_years : Len(resp.body.model_to_years[k]) = 2
    /\ \E cm \in store.car_models :
          /\ cm.brand_id = resp.brand_id
          /\ Str(cm.id) \notin DOMAIN resp.body.model_to_years
====
